---------------------------- MODULE Spec2Model ----------------------------
(***************************************************************************)
(* Model of the build-log analyzer of ddd-backend/script/analyze.py        *)
(* (class LogAnalyzer; log_analyzer.py holds an older copy of the same     *)
(* class), and of the state stores of novel-generate/scripts               *)
(* (state_manager.py: the Redis emotion curve, the MySQL progress row and  *)
(* project_status.json; rag_engine.py: chunk_text).                        *)
(*                                                                         *)
(* Text is modelled as a sequence of units.  A unit is a string: either    *)
(* one byte ("\r", "\n", "A", "0", "xC3", "xA9", "x81", "xFF") or a token, *)
(* a run of ASCII characters that the regular expressions of the program   *)
(* treat as a whole ("[ERROR]", "Caused by:", "cannot find symbol", ...).  *)
(* A regular expression is evaluated on the units in the order the units   *)
(* appear, so anchoring (^), search anywhere, rstrip/strip and split keep  *)
(* their meaning.                                                          *)
(***************************************************************************)
EXTENDS Integers, Sequences, FiniteSets, TLC

VARIABLES
    fileExists,         \* Path.exists() of log_path
    fileData,           \* the bytes of the log file (units)
    readable,           \* FALSE: open(log_path, 'rb') raises (e.g. PermissionError)
    chardet,            \* the chardet module: [available, encoding, confidence]
    max_errors,         \* self.max_errors
    context_lines,      \* self.context_lines
    encoding,           \* self.encoding ("None": not given)
    detected_encoding,  \* self.detected_encoding ("None": not set)
    errors,             \* self.errors
    pc,                 \* position of the running call: "idle", "analyze", "grep"
    lines,              \* local `lines` of the running analyze()/grep_search()
    i,                  \* local cursor `i` of the running loop
    calls,              \* number of analyze()/grep_search() calls started
    ret,                \* outcome of the last finished call
    grep,               \* locals of grep_search(): keyword, max_matches, ...
    printed,            \* line indices printed by the running grep_search()
    hist,               \* record of the running/last scan (ghost, for the claims)
    emo_curve,          \* the Redis list novel:<id>:emo_curve, head first
    emo_updates,        \* number of update_emo calls so far (ghost, for the claims)
    novel_progress,     \* the rows of MySQL novel_progress of the novel: <<>> or <<row>>
    project_status,     \* the file project_status.json: <<>> (absent) or <<content>>
    reply,              \* the dict the last state_manager call returned
    chunker             \* locals of chunk_text(): text, chunk_size, overlap, start, ...

novelVars == <<emo_curve, emo_updates, novel_progress, project_status, reply>>

vars == <<fileExists, fileData, readable, chardet, max_errors, context_lines,
          encoding, detected_encoding, errors, pc, lines, i, calls, ret, grep,
          printed, hist, novelVars, chunker>>

\* what lies outside the analyzer instance
envVars == <<fileData, readable, chardet, novelVars, chunker>>
cfgVars == <<max_errors, context_lines, encoding>>
grepVars == <<grep, printed>>

-----------------------------------------------------------------------------
(* Bounds of the model *)

MaxLines == 3
MaxErrors == 2
MaxCtx == 2
MaxCalls == 2

-----------------------------------------------------------------------------
(* Units *)

CR == "\r"
LF == "\n"

\* str.rstrip()/str.strip() and \s: white space
IsSpace(u) == u \in {" ", "\t", CR, LF}

\* tokens fully matched by [\w\.$]+
IsIdent(u) == u \in {"a.B.c", "boom", "INFO", "at", "package", "Exception",
                     "FAILURE", "FAILED", "Test", "BUILD"}

RECURSIVE RStrip(_)
RStrip(s) ==
    IF s = <<>> THEN <<>>
    ELSE IF IsSpace(s[Len(s)]) THEN RStrip(SubSeq(s, 1, Len(s) - 1))
    ELSE s

RECURSIVE LStrip(_)
LStrip(s) ==
    IF s = <<>> THEN <<>>
    ELSE IF IsSpace(s[1]) THEN LStrip(Tail(s))
    ELSE s

Strip(s) == LStrip(RStrip(s))

Min(a, b) == IF a < b THEN a ELSE b
Max(a, b) == IF a > b THEN a ELSE b

\* range(a, b) of Python, 0-based
Range(a, b) == {k \in a..(b - 1) : TRUE}

\* "sep".join(parts)
RECURSIVE Join(_, _)
Join(parts, sep) ==
    IF parts = <<>> THEN <<>>
    ELSE IF Len(parts) = 1 THEN parts[1]
    ELSE parts[1] \o <<sep>> \o Join(Tail(parts), sep)

\* text.split(sep): always at least one element
RECURSIVE Split(_, _)
Split(s, sep) ==
    IF \A k \in 1..Len(s) : s[k] # sep THEN <<s>>
    ELSE LET p == CHOOSE k \in 1..Len(s) :
                      s[k] = sep /\ \A j \in 1..(k - 1) : s[j] # sep
         IN <<SubSeq(s, 1, p - 1)>> \o Split(SubSeq(s, p + 1, Len(s)), sep)

-----------------------------------------------------------------------------
(* read_lines: line-ending normalization *)

\* bytes.replace(b'\r\n', b'\n'): left to right, non-overlapping
RECURSIVE ReplaceCRLF(_)
ReplaceCRLF(b) ==
    IF b = <<>> THEN <<>>
    ELSE IF Len(b) >= 2 /\ b[1] = CR /\ b[2] = LF
         THEN <<LF>> \o ReplaceCRLF(SubSeq(b, 3, Len(b)))
    ELSE <<b[1]>> \o ReplaceCRLF(Tail(b))

\* bytes.replace(b'\r', b'\n')
ReplaceCR(b) == [k \in 1..Len(b) |-> IF b[k] = CR THEN LF ELSE b[k]]

\* variant: the bare-CR pass is left out
NormalizeNewlines_CRLFOnly(b) == ReplaceCRLF(b)

\* raw_data.replace(b'\r\n', b'\n').replace(b'\r', b'\n')
NormalizeNewlines(b) == ReplaceCR(ReplaceCRLF(b))

-----------------------------------------------------------------------------
(* Codecs.  The byte units are 0x41 "A", 0x30 "0", 0xC3, 0xA9, 0x81, 0xFF;   *)
(* every other unit is ASCII text.  CharLen gives the length of the valid  *)
(* character at the head of s under a codec, 0 when the head is invalid.   *)

NONE == "None"

SampleSize == 10000
ConfidenceThreshold == 70

HiBytes == {"xC3", "xA9", "x81", "xFF"}
IsAscii(u) == u \notin HiBytes

\* number of bytes of a unit
UnitLen(u) ==
    CASE u = "[ERROR]" -> 7
      [] u = "[WARNING]" -> 9
      [] u = "Caused by:" -> 10
      [] u = "cannot find symbol" -> 18
      [] u = "does not exist" -> 14
      [] u = "compilation failure" -> 19
      [] u = "COMPILATION FAILURE" -> 19
      [] u = "Exception" -> 9
      [] u = "FAILURE" -> 7
      [] u = "FAILED" -> 6
      [] u = "BUILD" -> 5
      [] u = "Test" -> 4
      [] u = "package" -> 7
      [] u = "foo/Bar.java" -> 12
      [] u = "C:/src/Bar.java" -> 15
      [] u = ":[10,5]" -> 7
      [] u = "a.B.c" -> 5
      [] u = "boom" -> 4
      [] u = "INFO" -> 4
      [] u = "KW" -> 2
      [] u = "at" -> 2
      [] OTHER -> 1

RECURSIVE ByteLen(_)
ByteLen(s) == IF s = <<>> THEN 0 ELSE UnitLen(s[1]) + ByteLen(Tail(s))

DbcsLen(s, leads, trails, fourByte) ==
    IF IsAscii(s[1]) THEN 1
    ELSE IF s[1] \in leads /\ Len(s) >= 2 /\ s[2] \in trails THEN 2
    ELSE IF fourByte /\ s[1] \in leads /\ Len(s) >= 4 /\ s[2] = "0"
            /\ s[3] \in leads /\ s[4] = "0" THEN 4
    ELSE 0

\* s is not empty
CharLen(enc, s) ==
    CASE enc = "utf-8" ->
           IF IsAscii(s[1]) THEN 1
           ELSE IF s[1] = "xC3" /\ Len(s) >= 2 /\ s[2] \in {"xA9", "x81"} THEN 2
           ELSE 0
      [] enc \in {"gbk", "GBK"} ->
           DbcsLen(s, {"xC3", "xA9", "x81"}, {"A", "xC3", "xA9", "x81"}, FALSE)
      [] enc = "gb2312" ->
           DbcsLen(s, {"xC3", "xA9"}, {"xC3", "xA9"}, FALSE)
      [] enc = "gb18030" ->
           DbcsLen(s, {"xC3", "xA9", "x81"}, {"A", "xC3", "xA9", "x81"}, TRUE)
      [] enc = "utf-16" ->
           IF ByteLen(s) >= 2 THEN 2 ELSE 0
      [] OTHER -> \* "ascii"
           IF IsAscii(s[1]) THEN 1 ELSE 0

KnownCodecs == {"utf-8", "gbk", "GBK", "gb2312", "gb18030", "utf-16", "ascii"}

\* bytes.decode(enc) does not raise UnicodeDecodeError/LookupError
RECURSIVE Decodes(_, _)
Decodes(enc, s) ==
    /\ enc \in KnownCodecs
    /\ \/ s = <<>>
       \/ /\ CharLen(enc, s) > 0
          /\ IF enc = "utf-16"
             THEN ByteLen(s) % 2 = 0
             ELSE Decodes(enc, SubSeq(s, CharLen(enc, s) + 1, Len(s)))

REPLACEMENT == "<?>"
NONASCII == "<U>"

\* bytes.decode(enc, errors='replace') for a known codec: an ASCII unit decodes
\* to itself, a valid multi-byte character to one non-ASCII character, an
\* invalid byte to U+FFFD.  Under utf-16 the bytes pair up into characters
\* that are none of the ASCII units (no line feed survives).
RECURSIVE DecodeReplace(_, _)
DecodeReplace(s, enc) ==
    IF s = <<>> THEN <<>>
    ELSE IF enc = "utf-16"
         THEN IF ByteLen(s) >= 2
              THEN <<NONASCII>> \o [k \in 1..((ByteLen(s) - 2) \div 2) |-> NONASCII]
                   \o (IF ByteLen(s) % 2 = 1 THEN <<REPLACEMENT>> ELSE <<>>)
              ELSE <<REPLACEMENT>>
    ELSE LET n == CharLen(enc, s) IN
         IF n = 0 THEN <<REPLACEMENT>> \o DecodeReplace(Tail(s), enc)
         ELSE IF n = 1 THEN <<s[1]>> \o DecodeReplace(Tail(s), enc)
         ELSE <<NONASCII>> \o DecodeReplace(SubSeq(s, n + 1, Len(s)), enc)

\* decode(errors='ignore') under utf-8: invalid bytes are dropped
RECURSIVE DecodeIgnoreUtf8(_)
DecodeIgnoreUtf8(s) ==
    IF s = <<>> THEN <<>>
    ELSE LET n == CharLen("utf-8", s) IN
         IF n = 0 THEN DecodeIgnoreUtf8(Tail(s))
         ELSE IF n = 1 THEN <<s[1]>> \o DecodeIgnoreUtf8(Tail(s))
         ELSE <<NONASCII>> \o DecodeIgnoreUtf8(SubSeq(s, n + 1, Len(s)))

-----------------------------------------------------------------------------
(* _detect_encoding *)

common_encodings == <<"utf-8", "gbk", "gb2312", "gb18030", "utf-16">>

\* f.read(10000)
Sample(b) == SubSeq(b, 1, Min(Len(b), SampleSize))

\* the loop over common_encodings, from position k on; 'utf-8' when none decodes
RECURSIVE FallbackFrom(_, _)
FallbackFrom(k, raw) ==
    IF k > Len(common_encodings) THEN "utf-8"
    ELSE IF Decodes(common_encodings[k], raw) THEN common_encodings[k]
    ELSE FallbackFrom(k + 1, raw)

\* variant: the last candidate is returned without being tried
RECURSIVE FallbackLast(_, _)
FallbackLast(k, raw) ==
    IF k >= Len(common_encodings) THEN common_encodings[Len(common_encodings)]
    ELSE IF Decodes(common_encodings[k], raw) THEN common_encodings[k]
    ELSE FallbackLast(k + 1, raw)

FallbackDetect_ReturnsLast(raw) == FallbackLast(1, raw)

FallbackDetect(raw) == FallbackFrom(1, raw)

\* detected.upper() in ['GB2312', 'GB18030']
IsGbAlias(e) == e \in {"GB2312", "gb2312", "GB18030", "gb18030"}

\* the statistical detector is consulted and its answer accepted
ChardetAccepted(cd, raw) ==
    cd.available /\ raw # <<>> /\ cd.confidence > ConfidenceThreshold

\* the value _detect_encoding returns; every path also stores it in
\* self.detected_encoding
DetectEncoding(cached, explicit, canRead, data, cd) ==
    IF cached # NONE THEN cached
    ELSE IF explicit # NONE THEN explicit
    ELSE IF ~canRead THEN "utf-8"       \* except Exception
    ELSE LET raw == Sample(data) IN
         IF ChardetAccepted(cd, raw)
         THEN IF cd.encoding # NONE /\ IsGbAlias(cd.encoding) THEN "GBK"
              ELSE cd.encoding
         ELSE FallbackDetect(raw)

-----------------------------------------------------------------------------
(* read_lines *)

\* text.split('\n'), minus one trailing '', each line with '\n' appended
LinesOf(text) ==
    LET parts == Split(text, LF)
        kept == IF parts[Len(parts)] = <<>>
                THEN SubSeq(parts, 1, Len(parts) - 1) ELSE parts
    IN [k \in 1..Len(kept) |-> kept[k] \o <<LF>>]

\* f.readlines() in text mode (universal newlines): every line keeps its
\* terminator, translated to '\n'; a last line without terminator has none
TextModeLines(text) ==
    LET parts == Split(NormalizeNewlines(text), LF)
    IN [k \in 1..(Len(parts) - 1) |-> parts[k] \o <<LF>>]
       \o (IF parts[Len(parts)] = <<>> THEN <<>> ELSE <<parts[Len(parts)]>>)

\* variant: no second read after a failed decode
ReadLines_NoFallback(data, canRead, enc) ==
    IF canRead /\ enc \in KnownCodecs
    THEN [exc |-> NONE, fallback |-> FALSE,
          lines |-> LinesOf(DecodeReplace(NormalizeNewlines(data), enc))]
    ELSE IF canRead
    THEN [exc |-> "LookupError", fallback |-> FALSE, lines |-> <<>>]
    ELSE [exc |-> "OSError", fallback |-> FALSE, lines |-> <<>>]

\* the outcome of read_lines() once the file is known to exist and the
\* encoding enc has been detected: the try block, and the except block that
\* reads again as UTF-8 with errors='ignore'
ReadLines(data, canRead, enc) ==
    IF canRead /\ enc \in KnownCodecs
    THEN [exc |-> NONE, fallback |-> FALSE,
          lines |-> LinesOf(DecodeReplace(NormalizeNewlines(data), enc))]
    ELSE IF canRead
    THEN [exc |-> NONE, fallback |-> TRUE,
          lines |-> TextModeLines(DecodeIgnoreUtf8(data))]
    ELSE [exc |-> "OSError", fallback |-> TRUE, lines |-> <<>>]

-----------------------------------------------------------------------------
(* _identify_error_type *)

\* ERROR_PATTERNS['maven_error'].search(line): \[ERROR\]
MavenError(line) == \E k \in 1..Len(line) : line[k] = "[ERROR]"

\* ERROR_PATTERNS['failure'].search(line): FAILURE|BUILD FAILURE|Test.*FAILED
Failure(line) ==
    \/ \E k \in 1..Len(line) : line[k] = "FAILURE"
    \/ \E k \in 1..Len(line) : \E j \in (k + 1)..Len(line) :
          /\ line[k] = "Test"
          /\ line[j] = "FAILED"
          /\ \A m \in (k + 1)..(j - 1) : line[m] # LF

\* CAUSED_BY_PATTERN.search(line): ^Caused by:
CausedBy(line) == line # <<>> /\ line[1] = "Caused by:"

\* STACK_TRACE_PATTERN.search(line): ^\s+at\s+[\w\.$]+
StackFrame(line) ==
    \E a \in 2..Len(line) : \E b \in (a + 2)..Len(line) :
        /\ \A k \in 1..(a - 1) : IsSpace(line[k])
        /\ line[a] = "at"
        /\ \A k \in (a + 1)..(b - 1) : IsSpace(line[k])
        /\ IsIdent(line[b])

\* variant: the Caused-by rule is tried before the failure rule
identify_error_type_CausedByFirst(line) ==
    IF MavenError(line) THEN "ERROR"
    ELSE IF CausedBy(line) THEN "EXCEPTION"
    ELSE IF Failure(line) THEN "FAILURE"
    ELSE ""

identify_error_type(line) ==
    IF MavenError(line) THEN "ERROR"
    ELSE IF Failure(line) THEN "FAILURE"
    ELSE IF CausedBy(line) THEN "EXCEPTION"
    ELSE ""

-----------------------------------------------------------------------------
(* _extract_context *)

\* The for loop from 0-based index k up to (excluding) stop: each line is
\* appended to the context before the two stop tests are made.
RECURSIVE ContextFrom(_, _, _, _)
ContextFrom(ls, start_idx, k, stop) ==
    IF k >= stop THEN <<>>
    ELSE LET line == RStrip(ls[k + 1]) IN
         IF Strip(line) = <<>> THEN <<line>>
         ELSE IF identify_error_type(line) # "" /\ k > start_idx + 1 THEN <<line>>
         ELSE <<line>> \o ContextFrom(ls, start_idx, k + 1, stop)

\* variant: a blank line does not end the collection
RECURSIVE ContextFromNoBlankStop(_, _, _, _)
ContextFromNoBlankStop(ls, start_idx, k, stop) ==
    IF k >= stop THEN <<>>
    ELSE LET line == RStrip(ls[k + 1]) IN
         IF identify_error_type(line) # "" /\ k > start_idx + 1 THEN <<line>>
         ELSE <<line>> \o ContextFromNoBlankStop(ls, start_idx, k + 1, stop)

\* variant: an error line right after the trigger ends the collection too
RECURSIVE ContextFromAnyErrorStops(_, _, _, _)
ContextFromAnyErrorStops(ls, start_idx, k, stop) ==
    IF k >= stop THEN <<>>
    ELSE LET line == RStrip(ls[k + 1]) IN
         IF Strip(line) = <<>> THEN <<line>>
         ELSE IF identify_error_type(line) # "" THEN <<line>>
         ELSE <<line>> \o ContextFromAnyErrorStops(ls, start_idx, k + 1, stop)

extract_context_AnyErrorStops(ls, start_idx, window) ==
    ContextFromAnyErrorStops(ls, start_idx, start_idx + 1,
                             Min(start_idx + 1 + window, Len(ls)))

\* variant: the window is one line longer (an inclusive upper limit)
extract_context_WindowPlusOne(ls, start_idx, window) ==
    ContextFrom(ls, start_idx, start_idx + 1,
                Min(start_idx + 2 + window, Len(ls)))

\* variant: a blank line does not end the collection
extract_context_NoBlankStop(ls, start_idx, window) ==
    ContextFromNoBlankStop(ls, start_idx, start_idx + 1,
                           Min(start_idx + 1 + window, Len(ls)))

\* context of _extract_context(lines, start_idx) with self.context_lines = window
extract_context(ls, start_idx, window) ==
    ContextFrom(ls, start_idx, start_idx + 1,
                Min(start_idx + 1 + window, Len(ls)))

\* variant: only the frame lines are kept
stack_trace_of_FramesOnly(context) ==
    SelectSeq(context, LAMBDA line : StackFrame(line))

\* stack_trace of _extract_context: the context lines that are frames or causes
stack_trace_of(context) ==
    SelectSeq(context, LAMBDA line : StackFrame(line) \/ CausedBy(line))

-----------------------------------------------------------------------------
(* Reports *)

NO_ERRORS_MSG == "[OK] no errors found"

ReportContextLimit == 10
KeyTraceLimit == 5

Contains(text, u) == \E k \in 1..Len(text) : text[k] = u

\* 'Exception' in content
ContainsException(text) ==
    \E k \in 1..Len(text) : text[k] \in {"Exception", "NullPointerException"}

\* 'compilation failure' in content.lower()
ContainsCompilationFailureLower(text) ==
    \E k \in 1..Len(text) : text[k] \in {"compilation failure", "COMPILATION FAILURE"}

\* error.content + "\n" + "\n".join(error.context_lines)
EntryText(e) == e.content \o <<LF>> \o Join(e.context_lines, LF)

\* the first context_lines[:n]
FirstN(seq, n) == SubSeq(seq, 1, Min(Len(seq), n))

\* [A-Za-z]:[\\/] at the start of a path token
DrivePaths == {"C:/src/Bar.java"}
DrivePrefixed(u) == u \in DrivePaths
\* the token ends in .java
EndsJava(u) == u \in {"C:/src/Bar.java", "foo/Bar.java"}
\* variant: any path may start the match
AnyPaths == {"C:/src/Bar.java", "foo/Bar.java"}
\* Path(p).name
BaseName(u) == IF u \in {"C:/src/Bar.java", "foo/Bar.java"} THEN "Bar.java" ELSE u
\* :\[(\d+)[,:](\d+)\]
IsLineCol(u) == u = ":[10,5]"

\* positions <<k, a, b>> where
\* \[(ERROR|WARNING)\]\s+([A-Za-z]:[\\/].*?\.java):\[(\d+)[,:](\d+)\] matches:
\* the tag at k, white space up to a, the path from a to b, line/column at b+1
LocationMatchesWith(text, prefixed) ==
    LET n == Len(text)
        tags == {k \in 1..n : text[k] \in {"[ERROR]", "[WARNING]"}}
        starts(k) == {a \in (k + 2)..n :
                         /\ \A j \in (k + 1)..(a - 1) : IsSpace(text[j])
                         /\ text[a] \in prefixed}
        ends(a) == {b \in a..(n - 1) :
                         /\ EndsJava(text[b])
                         /\ \A j \in a..b : text[j] # LF
                         /\ IsLineCol(text[b + 1])}
    IN UNION {UNION {{<<k, a, b>> : b \in ends(a)} : a \in starts(k)} : k \in tags}

\* the location both reports derive from re.search on the entry's text
LocationWith(text, prefixed) ==
    LET ms == LocationMatchesWith(text, prefixed) IN
    IF ms = {} THEN <<"Unknown">>
    ELSE LET first == CHOOSE m \in ms : \A o \in ms :
                        \/ m[1] < o[1]
                        \/ m[1] = o[1] /\ m[3] <= o[3]
         IN <<BaseName(text[first[3]]), "[10,5]">>

\* variant: the drive letter is not required
Location_AnyPath(text) == LocationWith(text, AnyPaths)

Location(text) == LocationWith(text, DrivePaths)

\* variant: the exception rule is tested first
FailureType_ExceptionFirst(text) ==
    IF ContainsException(text) THEN "RuntimeException"
    ELSE IF Contains(text, "cannot find symbol") THEN "SymbolNotFound"
    ELSE IF Contains(text, "package") /\ Contains(text, "does not exist")
         THEN "PackageNotFound"
    ELSE IF ContainsCompilationFailureLower(text) THEN "CompilationError"
    ELSE "Unknown"

\* the if/elif chain of generate_bug_report
FailureType(text) ==
    IF Contains(text, "cannot find symbol") THEN "SymbolNotFound"
    ELSE IF Contains(text, "package") /\ Contains(text, "does not exist")
         THEN "PackageNotFound"
    ELSE IF ContainsCompilationFailureLower(text) THEN "CompilationError"
    ELSE IF ContainsException(text) THEN "RuntimeException"
    ELSE "Unknown"

\* _infer_root_cause: looks at error.content.lower() only
infer_root_cause(e) ==
    IF Contains(e.content, "cannot find symbol") THEN "missing import or misspelling"
    ELSE IF Contains(e.content, "package") THEN "missing Maven dependency"
    ELSE "syntax or logic error"

\* _analyze_error
analyze_error(e) ==
    LET text == EntryText(e)
        kind == IF Contains(text, "cannot find symbol")
                  THEN <<"symbol not found", "check import, spelling or dependency">>
                ELSE IF Contains(text, "package") /\ Contains(text, "does not exist")
                  THEN <<"package does not exist", "check Maven dependency">>
                ELSE IF Contains(text, "NullPointerException")
                  THEN <<"null pointer">>
                ELSE IF Contains(text, "incompatible types")
                  THEN <<"type mismatch">>
                ELSE <<>>
        loc == IF Location(text) = <<"Unknown">> THEN <<>> ELSE <<Location(text)>>
    IN [kind |-> kind, location |-> loc]

\* the headed blocks of the section generate_report writes for entry e
ReportBlocks(e) ==
    <<"content">>
    \o (IF e.context_lines # <<>> THEN <<"context">> ELSE <<>>)
    \o (IF analyze_error(e).kind # <<>> \/ analyze_error(e).location # <<>>
        THEN <<"analysis">> ELSE <<>>)

\* variant: an empty accumulator yields a report without sections
generate_report_NoShortCircuit(errs) ==
    [kind |-> "report", count |-> Len(errs), sections |-> <<>>]

\* generate_report(): the value returned
generate_report(errs) ==
    IF errs = <<>> THEN [kind |-> "message", text |-> NO_ERRORS_MSG]
    ELSE [kind |-> "report",
          count |-> Len(errs),
          sections |-> [k \in 1..Len(errs) |->
              [index |-> k,
               error_type |-> errs[k].error_type,
               line_number |-> errs[k].line_number,
               content |-> errs[k].content,
               context |-> FirstN(errs[k].context_lines, ReportContextLimit),
               analysis |-> analyze_error(errs[k]),
               blocks |-> ReportBlocks(errs[k])]]]

\* generate_bug_report(): the value returned
generate_bug_report(errs) ==
    IF errs = <<>> THEN [kind |-> "message", text |-> NO_ERRORS_MSG]
    ELSE LET error == errs[1]
             text == EntryText(error)
         IN [kind |-> "bug_report",
             failure_type |-> FailureType(text),
             location |-> Location(text),
             key_trace |-> <<error.content>>
                           \o FirstN(error.context_lines, KeyTraceLimit),
             root_cause |-> infer_root_cause(error)]

-----------------------------------------------------------------------------
(* The analyzer instance: LogAnalyzer.__init__ and the calls made on it *)

\* the file whose lines are ls, separated by the terminator term, the last
\* line terminated when final
RECURSIVE FileOf(_, _, _)
FileOf(ls, term, final) ==
    IF ls = <<>> THEN <<>>
    ELSE IF Len(ls) = 1 THEN ls[1] \o (IF final THEN term ELSE <<>>)
    ELSE ls[1] \o term \o FileOf(Tail(ls), term, final)

Terminators == {<<LF>>, <<CR, LF>>, <<CR>>}

FilesOf(texts, n, terms, finals) ==
    {FileOf(ls, t, f) : ls \in UNION {[1..m -> texts] : m \in 0..n},
                        t \in terms, f \in finals}

NoChardet == [available |-> FALSE, encoding |-> NONE, confidence |-> 0]

NoGrep == [keyword |-> "", max_matches |-> 0, matches_found |-> 0,
           matched_ranges |-> {}, match_lines |-> <<>>]

NoHist == [base |-> 0, detects |-> 0, reads |-> 0, fallbacks |-> 0,
           main |-> FALSE]

NoRet == [op |-> NONE, exc |-> NONE, value |-> <<>>]

NoReply == [op |-> NONE, status |-> NONE]

NoChunker == [pc |-> "idle", text |-> <<>>, chunk_size |-> 0, overlap |-> 0,
              start |-> 0, chunks |-> <<>>, result |-> <<>>]

\* the stores of novel-generate are empty and no state_manager call was made
StoresEmpty ==
    /\ emo_curve = <<>>
    /\ emo_updates = 0
    /\ novel_progress = <<>>
    /\ project_status = <<>>
    /\ reply = NoReply
    /\ chunker = NoChunker

\* the fields __init__ sets, and no call running
Fresh ==
    /\ detected_encoding = NONE
    /\ errors = <<>>
    /\ pc = "idle"
    /\ lines = <<>>
    /\ i = 0
    /\ calls = 0
    /\ ret = NoRet
    /\ grep = NoGrep
    /\ printed = <<>>
    /\ hist = NoHist

\* the sample of the file is read by this call of _detect_encoding
Detects == detected_encoding = NONE /\ encoding = NONE

\* read_lines() when the file exists: _detect_encoding, then the read
DoRead ==
    LET enc == DetectEncoding(detected_encoding, encoding, readable, fileData, chardet)
    IN /\ detected_encoding' = enc
       /\ LET r == ReadLines(fileData, readable, enc) IN
          /\ hist' = [hist EXCEPT !.detects = @ + (IF Detects THEN 1 ELSE 0),
                                  !.reads = @ + 1,
                                  !.base = Len(errors),
                                  !.fallbacks = @ + (IF r.fallback THEN 1 ELSE 0)]
          /\ IF r.exc = NONE
             THEN /\ lines' = r.lines
                  /\ i' = 0
                  /\ ret' = NoRet
             ELSE /\ UNCHANGED <<lines, i>>
                  /\ ret' = [op |-> "read_lines", exc |-> r.exc, value |-> <<>>]

\* variant: the encoding is detected before the existence test
AnalyzeMissing_DetectFirst ==
    /\ ~fileExists
    /\ detected_encoding' =
           DetectEncoding(detected_encoding, encoding, FALSE, fileData, chardet)
    /\ hist' = [hist EXCEPT !.detects = @ + (IF Detects THEN 1 ELSE 0)]
    /\ ret' = [op |-> "analyze", exc |-> "FileNotFoundError", value |-> <<>>]
    /\ UNCHANGED <<errors, pc, lines, i>>

\* analyze() -> read_lines(): raise FileNotFoundError
AnalyzeMissing ==
    /\ ~fileExists
    /\ ret' = [op |-> "analyze", exc |-> "FileNotFoundError", value |-> <<>>]
    /\ UNCHANGED <<detected_encoding, errors, pc, lines, i, hist>>

\* analyze(): lines = self.read_lines(); i = 0
AnalyzeCall ==
    /\ pc = "idle"
    /\ calls < MaxCalls
    /\ calls' = calls + 1
    /\ \/ AnalyzeMissing
       \/ /\ fileExists
          /\ DoRead
          /\ pc' = IF ret'.exc = NONE THEN "analyze" ELSE "idle"
          /\ UNCHANGED errors
    /\ UNCHANGED <<fileExists, envVars, cfgVars, grepVars>>

\* a direct call of read_lines()
ReadLinesCall ==
    /\ pc = "idle"
    /\ calls < MaxCalls
    /\ calls' = calls + 1
    /\ \/ /\ ~fileExists
          /\ ret' = [op |-> "read_lines", exc |-> "FileNotFoundError",
                     value |-> <<>>]
          /\ UNCHANGED <<detected_encoding, hist>>
       \/ /\ fileExists
          /\ LET enc == DetectEncoding(detected_encoding, encoding, readable,
                                       fileData, chardet)
                 r == ReadLines(fileData, readable, enc)
             IN /\ detected_encoding' = enc
                /\ hist' = [hist EXCEPT
                               !.detects = @ + (IF Detects THEN 1 ELSE 0),
                               !.reads = @ + 1,
                               !.fallbacks = @ + (IF r.fallback THEN 1 ELSE 0)]
                /\ ret' = [op |-> "read_lines", exc |-> r.exc, value |-> r.lines]
    /\ UNCHANGED <<fileExists, envVars, cfgVars, grepVars, errors, pc, lines, i>>

\* variant: the cursor stays on a classified line
Advance_Stay(context) == 0

\* variant: only the trigger line is skipped
Advance_TriggerOnly(context) == 1

\* variant: the trigger line itself is not skipped
Advance_ContextOnly(context) == Len(context)

\* i += len(context) + 1
Advance(context) == Len(context) + 1

\* variant: the cap on the accumulator is not tested
ScanContinues_NoCap(cursor, ls, errs, cap) == cursor < Len(ls)

\* while i < len(lines) and len(self.errors) < self.max_errors
ScanContinues(cursor, ls, errs, cap) == cursor < Len(ls) /\ Len(errs) < cap

\* one iteration of the while loop of analyze()
AnalyzeStep ==
    /\ pc = "analyze"
    /\ ScanContinues(i, lines, errors, max_errors)
    /\ LET line == lines[i + 1] IN
       IF identify_error_type(line) # ""
       THEN LET context == extract_context(lines, i, context_lines)
                entry == [line_number |-> i + 1,
                          error_type |-> identify_error_type(line),
                          content |-> RStrip(line),
                          context_lines |-> context,
                          stack_trace |-> stack_trace_of(context)]
            IN /\ errors' = Append(errors, entry)
               /\ i' = i + Advance(context)
       ELSE /\ i' = i + 1
            /\ UNCHANGED errors
    /\ UNCHANGED <<fileExists, envVars, cfgVars, grepVars, detected_encoding,
                   pc, lines, calls, ret, hist>>

\* return self.errors
AnalyzeReturn ==
    /\ pc = "analyze"
    /\ ~ScanContinues(i, lines, errors, max_errors)
    /\ pc' = "idle"
    /\ ret' = [op |-> "analyze", exc |-> NONE, value |-> errors]
    /\ UNCHANGED <<fileExists, envVars, cfgVars, grepVars, detected_encoding,
                   errors, lines, i, calls, hist>>

GenerateReport ==
    /\ pc = "idle"
    /\ ret' = [op |-> "generate_report", exc |-> NONE,
               value |-> generate_report(errors)]
    /\ UNCHANGED <<fileExists, envVars, cfgVars, grepVars, detected_encoding,
                   errors, pc, lines, i, calls, hist>>

GenerateBugReport ==
    /\ pc = "idle"
    /\ ret' = [op |-> "generate_bug_report", exc |-> NONE,
               value |-> generate_bug_report(errors)]
    /\ UNCHANGED <<fileExists, envVars, cfgVars, grepVars, detected_encoding,
                   errors, pc, lines, i, calls, hist>>

\* what main() leaves behind: the exit code and the file at report_path
Exit(code, written, report) ==
    [exit_code |-> code, report_written |-> written, report |-> report]

\* main(): parse_args, then the test of log_path.exists()
MainStart ==
    /\ pc = "idle"
    /\ calls = 0
    /\ ~hist.main
    /\ hist' = [hist EXCEPT !.main = TRUE]
    /\ IF fileExists
       THEN pc' = "main" /\ UNCHANGED ret
       ELSE /\ pc' = "exited"
            /\ ret' = [op |-> "main", exc |-> NONE, value |-> Exit(1, FALSE, <<>>)]
    /\ UNCHANGED <<fileExists, envVars, cfgVars, grepVars, detected_encoding,
                   errors, lines, i, calls>>

\* main(): analyzer = LogAnalyzer(...); errors = analyzer.analyze(), up to
\* the scan loop; an exception of read_lines() is caught by main's handler
MainAnalyze ==
    /\ pc = "main"
    /\ calls' = calls + 1
    /\ DoRead
    /\ pc' = IF ret'.exc = NONE THEN "analyze" ELSE "main_except"
    /\ UNCHANGED <<fileExists, envVars, cfgVars, grepVars, errors>>

\* main(): except Exception: the message and the traceback, sys.exit(1)
MainExcept ==
    /\ pc = "main_except"
    /\ pc' = "exited"
    /\ ret' = [op |-> "main", exc |-> ret.exc, value |-> Exit(1, FALSE, <<>>)]
    /\ UNCHANGED <<fileExists, envVars, cfgVars, grepVars, detected_encoding,
                   errors, lines, i, calls, hist>>

\* main(): after analyze() returned: the report is saved when errors were
\* found, a message is printed otherwise; _save_report may fail
MainFinish ==
    /\ pc = "idle"
    /\ hist.main
    /\ ret.op = "analyze"
    /\ pc' = "exited"
    /\ \E writable \in BOOLEAN :
          ret' = IF ret.value = <<>>
                 THEN [op |-> "main", exc |-> NONE, value |-> Exit(0, FALSE, <<>>)]
                 ELSE IF writable
                 THEN [op |-> "main", exc |-> NONE,
                       value |-> Exit(0, TRUE, generate_bug_report(errors))]
                 ELSE [op |-> "main", exc |-> "OSError",
                       value |-> Exit(1, FALSE, <<>>)]
    /\ UNCHANGED <<fileExists, envVars, cfgVars, grepVars, detected_encoding,
                   errors, lines, i, calls, hist>>

\* the environment removes the log file between two calls
DeleteFile ==
    /\ pc = "idle"
    /\ fileExists
    /\ fileExists' = FALSE
    /\ UNCHANGED <<envVars, cfgVars, grepVars, detected_encoding, errors, pc,
                   lines, i, calls, ret, hist>>

-----------------------------------------------------------------------------
(* grep_search *)

\* list(range(a, b))
SeqRange(a, b) == [k \in 1..Max(b - a, 0) |-> a + k - 1]

\* keyword in lines[i]
KeywordIn(keyword, line) == keyword = "" \/ Contains(line, keyword)

\* variant: the lines before the match are printed without the membership test
BeforeLines_Unfiltered(cursor, window, matched) ==
    SeqRange(Max(0, cursor - window), cursor)

\* the lines the first for loop prints: range(start, i) minus matched_ranges
BeforeLines(cursor, window, matched) ==
    SelectSeq(SeqRange(Max(0, cursor - window), cursor),
              LAMBDA j : j \notin matched)

\* variant: the lines after the match are skipped without being printed
AfterLines_Skipped(cursor, window, total, matched) == <<>>

\* the lines the second for loop prints: range(i + 1, end) minus matched_ranges
AfterLines(cursor, window, total, matched) ==
    SelectSeq(SeqRange(cursor + 1, Min(total, cursor + window + 1)),
              LAMBDA j : j \notin matched)

\* variant: the counter is tested after the match is printed
GrepContinues_LateCap(cursor, total, found, cap) == cursor < total /\ found <= cap

\* while i < total_lines and matches_found < max_matches
GrepContinues(cursor, total, found, cap) == cursor < total /\ found < cap

SeqToSet(q) == {q[k] : k \in 1..Len(q)}

\* grep_search(keyword, max_matches): lines = self.read_lines(); i = 0
GrepCall(keyword, cap) ==
    /\ pc = "idle"
    /\ calls < MaxCalls
    /\ calls' = calls + 1
    /\ \/ /\ ~fileExists
          /\ ret' = [op |-> "grep_search", exc |-> "FileNotFoundError",
                     value |-> <<>>]
          /\ UNCHANGED <<detected_encoding, pc, lines, i, hist, grepVars>>
       \/ /\ fileExists
          /\ DoRead
          /\ pc' = IF ret'.exc = NONE THEN "grep" ELSE "idle"
          /\ grep' = [keyword |-> keyword, max_matches |-> cap,
                      matches_found |-> 0, matched_ranges |-> {},
                      match_lines |-> <<>>]
          /\ printed' = <<>>
    /\ UNCHANGED <<fileExists, envVars, cfgVars, errors>>

\* one iteration of the while loop of grep_search()
GrepStep ==
    /\ pc = "grep"
    /\ GrepContinues(i, Len(lines), grep.matches_found, grep.max_matches)
    /\ IF KeywordIn(grep.keyword, lines[i + 1]) /\ i \notin grep.matched_ranges
       THEN LET before == BeforeLines(i, context_lines, grep.matched_ranges)
                seen == grep.matched_ranges \cup SeqToSet(before) \cup {i}
                after == AfterLines(i, context_lines, Len(lines), seen)
            IN /\ printed' = printed \o before \o <<i>> \o after
               /\ grep' = [grep EXCEPT
                              !.matches_found = @ + 1,
                              !.matched_ranges = seen \cup SeqToSet(after),
                              !.match_lines = Append(@, i)]
               /\ i' = Min(Len(lines), i + context_lines + 1)
       ELSE /\ i' = i + 1
            /\ UNCHANGED grepVars
    /\ UNCHANGED <<fileExists, envVars, cfgVars, detected_encoding, errors, pc,
                   lines, calls, ret, hist>>

\* the loop is left: the summary is printed and the call returns
GrepReturn ==
    /\ pc = "grep"
    /\ ~GrepContinues(i, Len(lines), grep.matches_found, grep.max_matches)
    /\ pc' = "idle"
    /\ ret' = [op |-> "grep_search", exc |-> NONE, value |-> grep.matches_found]
    /\ UNCHANGED <<fileExists, envVars, cfgVars, grepVars, detected_encoding,
                   errors, lines, i, calls, hist>>

-----------------------------------------------------------------------------
(* Spec: one analyzer over a log of up to MaxLines lines *)

ScanTexts == {<<>>,
              <<" ">>,
              <<"[ERROR]", " ", "boom">>,
              <<"Caused by:", " ", "boom">>,
              <<" ", "at", " ", "a.B.c">>}

Init ==
    /\ fileExists = TRUE
    /\ fileData \in FilesOf(ScanTexts, MaxLines, {<<LF>>}, {TRUE})
    /\ readable = TRUE
    /\ chardet = NoChardet
    /\ max_errors \in (-1)..MaxErrors
    /\ context_lines \in (-1)..MaxCtx
    /\ encoding = NONE
    /\ Fresh
    /\ StoresEmpty

Next ==
    \/ AnalyzeCall
    \/ AnalyzeStep
    \/ AnalyzeReturn

Spec == Init /\ [][Next]_vars

-----------------------------------------------------------------------------
(* SpecReport: analyze() and the two reports with the default configuration, *)
(* over logs of compiler messages; the log file may be removed              *)

DefaultMaxErrors == 5
DefaultContextLines == 20
MaxReportLines == 2

ReportTexts == {<<>>,
                <<"INFO", " ", "boom">>,
                <<"[ERROR]", " ", "foo/Bar.java", ":[10,5]", " ", "cannot find symbol">>,
                <<"[ERROR]", " ", "C:/src/Bar.java", ":[10,5]", " ", "cannot find symbol">>}

InitReport ==
    /\ fileExists = TRUE
    /\ fileData \in FilesOf(ReportTexts, MaxReportLines, Terminators, BOOLEAN)
    /\ readable = TRUE
    /\ chardet \in {NoChardet,
                    [available |-> TRUE, encoding |-> "ascii", confidence |-> 100]}
    /\ max_errors = DefaultMaxErrors
    /\ context_lines = DefaultContextLines
    /\ encoding = NONE
    /\ Fresh
    /\ StoresEmpty

NextReport ==
    \/ AnalyzeCall
    \/ AnalyzeStep
    \/ AnalyzeReturn
    \/ GenerateReport
    \/ GenerateBugReport
    \/ DeleteFile

SpecReport == InitReport /\ [][NextReport]_vars

-----------------------------------------------------------------------------
(* Claims about the scanner (Spec) *)

IsBlank(line) == Strip(line) = <<>>

\* the entries appended by the running or last analyze() call
ScanEntries == SubSeq(errors, hist.base + 1, Len(errors))

\* the entry's context is the run of lines that follows its trigger
FollowsTrigger(e) ==
    /\ e.line_number + Len(e.context_lines) <= Len(lines)
    /\ \A k \in 1..Len(e.context_lines) :
          e.context_lines[k] = RStrip(lines[e.line_number + k])

\* no captured line lies after a blank line that follows the trigger
NoLineAfterBlank(e) ==
    \A k \in 1..Len(e.context_lines) :
        \A j \in 1..(k - 1) : ~IsBlank(lines[e.line_number + j])

\* C1: with max_errors >= 0 the accumulator never holds more than max_errors
\* entries, and analyze() never returns more, however often it is called.
C1_ErrorsCapped ==
    max_errors >= 0 =>
        /\ Len(errors) <= max_errors
        /\ (ret.op = "analyze" /\ ret.exc = NONE => Len(ret.value) <= max_errors)

\* a second analyze() call appended to the entries of the first and stopped
\* at the cap
C1_Witness ==
    /\ calls = 2
    /\ ret.op = "analyze"
    /\ ret.exc = NONE
    /\ 0 < hist.base
    /\ hist.base < Len(errors)
    /\ Len(ret.value) = max_errors

\* C2: in the scan of a fresh instance the line numbers of the entries are
\* 1-based, lie within the line sequence and strictly increase.
C2_LineNumbersIncrease ==
    calls <= 1 =>
        /\ \A k \in 1..Len(errors) : errors[k].line_number \in 1..Len(lines)
        /\ \A k \in 1..(Len(errors) - 1) :
              errors[k].line_number < errors[k + 1].line_number

\* the first scan emitted two entries, the second not on the next line
C2_Witness ==
    /\ calls = 1
    /\ Len(errors) >= 2
    /\ errors[2].line_number > errors[1].line_number + 1

\* C3 as stated: every entry's context is no longer than context_lines, no
\* longer than the lines after the trigger, and holds no line after the first
\* blank line that follows the trigger.
C3_ContextWithinConfigured ==
    \A k \in 1..Len(errors) :
        /\ Len(errors[k].context_lines) <= context_lines
        /\ Len(errors[k].context_lines) <= Len(lines) - errors[k].line_number
        /\ FollowsTrigger(errors[k])
        /\ NoLineAfterBlank(errors[k])

\* C3 (amended): every entry's context is no longer than max(context_lines, 0),
\* no longer than the lines after the trigger, and holds no line after the
\* first blank line that follows the trigger.
C3_ContextWithinWindow ==
    \A k \in 1..Len(errors) :
        /\ Len(errors[k].context_lines) <= Max(context_lines, 0)
        /\ Len(errors[k].context_lines) <= Len(lines) - errors[k].line_number
        /\ FollowsTrigger(errors[k])
        /\ NoLineAfterBlank(errors[k])

\* an entry whose context ends at a blank line although the window and the
\* log both go on
C3_Witness ==
    \E k \in 1..Len(errors) :
        LET e == errors[k] IN
        /\ e.context_lines # <<>>
        /\ IsBlank(e.context_lines[Len(e.context_lines)])
        /\ Len(e.context_lines) < context_lines
        /\ e.line_number + Len(e.context_lines) < Len(lines)

-----------------------------------------------------------------------------
(* SpecGrep: grep_search() over logs of up to MaxGrepLines lines *)

MaxGrepLines == 5
MaxGrepCtx == 2
MaxMatches == 2

GrepTexts == {<<"KW">>, <<"boom">>}

InitGrep ==
    /\ fileExists = TRUE
    /\ fileData \in FilesOf(GrepTexts, MaxGrepLines, {<<LF>>}, {TRUE})
    /\ readable = TRUE
    /\ chardet = NoChardet
    /\ max_errors = DefaultMaxErrors
    /\ context_lines \in (-1)..MaxGrepCtx
    /\ encoding = NONE
    /\ Fresh
    /\ StoresEmpty

NextGrep ==
    \/ \E cap \in (-1)..MaxMatches : GrepCall("KW", cap)
    \/ GrepStep
    \/ GrepReturn

SpecGrep == InitGrep /\ [][NextGrep]_vars

\* C4: with context_lines >= 0 no line index is printed twice during one
\* grep_search() call, whether as a match line or as context.
C4_NoLinePrintedTwice ==
    context_lines >= 0 =>
        \A a \in 1..Len(printed) : \A b \in 1..Len(printed) :
            a # b => printed[a] # printed[b]

\* two matches were printed whose windows overlap
C4_Witness ==
    /\ context_lines >= 1
    /\ ret.op = "grep_search"
    /\ \E k \in 1..(Len(grep.match_lines) - 1) :
          grep.match_lines[k + 1] - context_lines
              <= grep.match_lines[k] + context_lines

-----------------------------------------------------------------------------
(* Claims about the reports and the missing file (SpecReport) *)

ScenarioLine ==
    <<"[ERROR]", " ", "foo/Bar.java", ":[10,5]", " ", "cannot find symbol">>

DriveLine ==
    <<"[ERROR]", " ", "C:/src/Bar.java", ":[10,5]", " ", "cannot find symbol">>

NoErrorsMessage == [kind |-> "message", text |-> NO_ERRORS_MSG]

NoErrorLine == \A k \in 1..Len(lines) : identify_error_type(lines[k]) = ""

\* C5 as stated: the log of one [ERROR] line followed by one blank line yields
\* exactly one entry, with line_number 1, error_type ERROR and no context line.
C5_ScenarioEmptyContext ==
    (/\ ret.op = "analyze"
     /\ ret.exc = NONE
     /\ calls = 1
     /\ lines = <<ScenarioLine \o <<LF>>, <<LF>>>>)
    => /\ Len(ret.value) = 1
       /\ ret.value[1].line_number = 1
       /\ ret.value[1].error_type = "ERROR"
       /\ ret.value[1].context_lines = <<>>

HasDrivePath(e) ==
    \E k \in 1..Len(EntryText(e)) : DrivePrefixed(EntryText(e)[k])

C7_NoErrorsMessage ==
    /\ (ret.op = "analyze" /\ ret.exc = NONE /\ NoErrorLine) => ret.value = <<>>
    /\ (/\ ret.op \in {"generate_report", "generate_bug_report"}
        /\ (calls = 0 \/ NoErrorLine))
       => ret.value = NoErrorsMessage

\* a report was requested after the scan of a log of unclassified lines
C7_Witness ==
    /\ ret.op = "generate_report"
    /\ hist.reads >= 1
    /\ \E k \in 1..Len(lines) : ~IsBlank(lines[k])
    /\ NoErrorLine

\* C10: a call made while the log file does not exist ends with
\* FileNotFoundError, no encoding detection and no read having been made, and
\* leaves the accumulator and the cached encoding as they were.
C10_MissingFileFailsFirst ==
    [][(calls' = calls + 1 /\ ~fileExists) =>
          /\ ret'.exc = "FileNotFoundError"
          /\ pc' = "idle"
          /\ errors' = errors
          /\ detected_encoding' = detected_encoding
          /\ hist'.detects = hist.detects
          /\ hist'.reads = hist.reads]_vars

\* the file vanished after a scan that cached an encoding and found errors
C10_Witness ==
    /\ ret.exc = "FileNotFoundError"
    /\ detected_encoding # NONE
    /\ errors # <<>>

-----------------------------------------------------------------------------
(* SpecNorm: the line-ending normalization applied to a buffer, and again to *)
(* its own result                                                          *)

MaxRaw == 5

SeqsUpTo(S, n) == UNION {[1..m -> S] : m \in 0..n}

\* normalized = raw_data.replace(...).replace(...), on the file first and on
\* the previous result afterwards
NormalizeCall ==
    /\ pc = "idle"
    /\ calls < MaxCalls
    /\ calls' = calls + 1
    /\ LET input == IF calls = 0 THEN fileData ELSE ret.value.output IN
       ret' = [op |-> "normalize", exc |-> NONE,
               value |-> [input |-> input, output |-> NormalizeNewlines(input)]]
    /\ UNCHANGED <<fileExists, envVars, cfgVars, grepVars, detected_encoding,
                   errors, pc, lines, i, hist>>

InitNorm ==
    /\ fileExists = TRUE
    /\ fileData \in SeqsUpTo({CR, LF, "A"}, MaxRaw)
    /\ readable = TRUE
    /\ chardet = NoChardet
    /\ max_errors = DefaultMaxErrors
    /\ context_lines = DefaultContextLines
    /\ encoding = NONE
    /\ Fresh
    /\ StoresEmpty

NextNorm == NormalizeCall

SpecNorm == InitNorm /\ [][NextNorm]_vars

\* C8: normalizing a normalized buffer changes nothing, and a normalized
\* buffer holds no CR.
C8_NormalizeIdempotent ==
    ret.op = "normalize" =>
        /\ \A k \in 1..Len(ret.value.output) : ret.value.output[k] # CR
        /\ calls >= 2 => ret.value.output = ret.value.input

\* a buffer with a CR before a CRLF was normalized twice
C8_Witness ==
    /\ ret.op = "normalize"
    /\ calls = 2
    /\ \E k \in 1..(Len(fileData) - 2) :
          fileData[k] = CR /\ fileData[k + 1] = CR /\ fileData[k + 2] = LF

-----------------------------------------------------------------------------
(* SpecEnc: _detect_encoding() on byte samples *)

MaxSample == 4

EncBytes == {"A", "0", "xC3", "xA9", "x81", "xFF"}

\* a direct call of _detect_encoding()
DetectCall ==
    /\ pc = "idle"
    /\ calls < MaxCalls
    /\ calls' = calls + 1
    /\ LET enc == DetectEncoding(detected_encoding, encoding, readable,
                                 fileData, chardet)
       IN /\ detected_encoding' = enc
          /\ ret' = [op |-> "_detect_encoding", exc |-> NONE, value |-> enc]
    /\ hist' = [hist EXCEPT !.detects = @ + (IF Detects THEN 1 ELSE 0)]
    /\ UNCHANGED <<fileExists, envVars, cfgVars, grepVars, errors, pc, lines, i>>

InitEnc ==
    /\ fileExists = TRUE
    /\ fileData \in SeqsUpTo(EncBytes, MaxSample)
    /\ readable \in BOOLEAN
    /\ chardet \in {NoChardet,
                    [available |-> TRUE, encoding |-> "GB2312", confidence |-> 70],
                    [available |-> TRUE, encoding |-> "GB2312", confidence |-> 99]}
    /\ max_errors = DefaultMaxErrors
    /\ context_lines = DefaultContextLines
    /\ encoding = NONE
    /\ Fresh
    /\ StoresEmpty

NextEnc == DetectCall

SpecEnc == InitEnc /\ [][NextEnc]_vars

\* the detector is missing or its confidence is not above the threshold
LowConfidence == ~chardet.available \/ chardet.confidence <= ConfidenceThreshold

\* C9: without an explicit encoding and without a confident detector,
\* _detect_encoding returns the first of utf-8, gbk, gb2312, gb18030, utf-16
\* that decodes the sample (which the returned encoding then decodes), returns
\* utf-8 when none of them does, and never raises.
C9_FirstDecodingFallback ==
    (ret.op = "_detect_encoding" /\ encoding = NONE /\ LowConfidence) =>
        /\ ret.exc = NONE
        /\ readable =>
              LET raw == Sample(fileData)
                  ok == {k \in 1..Len(common_encodings) :
                            Decodes(common_encodings[k], raw)}
              IN /\ ok # {} =>
                       /\ \E k \in ok : /\ ret.value = common_encodings[k]
                                        /\ \A j \in ok : k <= j
                       /\ Decodes(ret.value, raw)
                 /\ ok = {} => ret.value = "utf-8"

\* a double-byte sample, the detector present but not confident: the fallback
\* list yields gbk
C9_Witness ==
    /\ ret.op = "_detect_encoding"
    /\ chardet.available
    /\ LowConfidence
    /\ ret.value = "gbk"
    /\ ~Decodes("utf-8", fileData)

-----------------------------------------------------------------------------
(* SpecRead: read_lines(), analyze() and grep_search() called in any order   *)
(* on one instance, the file possibly unreadable, the encoding possibly      *)
(* given by the caller                                                       *)

MaxReadLines == 2
DefaultMaxMatches == 10

ReadTexts == {<<"KW">>, <<"[ERROR]", " ", "xFF">>}

\* encodings the caller may pass; the last is no codec name
ExplicitEncodings == {NONE, "gbk", "no-such-codec"}

InitRead ==
    /\ fileExists = TRUE
    /\ fileData \in FilesOf(ReadTexts, MaxReadLines, {<<LF>>, <<CR, LF>>}, {TRUE})
    /\ readable \in BOOLEAN
    /\ chardet \in {NoChardet,
                    [available |-> TRUE, encoding |-> "GB2312", confidence |-> 99]}
    /\ max_errors = DefaultMaxErrors
    /\ context_lines = DefaultContextLines
    /\ encoding \in ExplicitEncodings
    /\ Fresh
    /\ StoresEmpty

NextRead ==
    \/ ReadLinesCall
    \/ AnalyzeCall
    \/ AnalyzeStep
    \/ AnalyzeReturn
    \/ GrepCall("KW", DefaultMaxMatches)
    \/ GrepStep
    \/ GrepReturn
    \/ DeleteFile

SpecRead == InitRead /\ [][NextRead]_vars

\* C11 as stated: no exception from reading an existing file reaches the
\* caller of read_lines(), analyze() or grep_search().
C11_ReadNeverRaises ==
    ret.op \in {"read_lines", "analyze", "grep_search"}
        => ret.exc \in {NONE, "FileNotFoundError"}

\* C11 (amended): a call that reads an existing file makes at most one
\* fallback read, and makes it whenever the first read fails; when the
\* fallback read succeeds no exception reaches the caller, and an exception
\* reaches the caller only when the fallback read itself fails.
C11_FallbackOnce ==
    [][(calls' = calls + 1 /\ fileExists) =>
          LET fb == hist'.fallbacks - hist.fallbacks IN
          /\ fb \in {0, 1}
          /\ (~readable \/ detected_encoding' \notin KnownCodecs) => fb = 1
          /\ (fb = 1 /\ readable) =>
                 /\ ret'.exc = NONE
                 /\ ret'.op = "read_lines" =>
                        ret'.value = TextModeLines(DecodeIgnoreUtf8(fileData))
          /\ ret'.exc # NONE => (fb = 1 /\ ~readable)]_vars

\* read_lines() returned the lines of the fallback read
C11_Witness ==
    /\ ret.op = "read_lines"
    /\ ret.exc = NONE
    /\ hist.fallbacks >= 1
    /\ ret.value # <<>>

-----------------------------------------------------------------------------
(* SpecMain: one run of main() in report mode *)

InitMain ==
    /\ fileExists \in BOOLEAN
    /\ fileData \in FilesOf(ReportTexts, MaxReportLines, {<<LF>>}, {TRUE})
    /\ readable \in BOOLEAN
    /\ chardet = NoChardet
    /\ max_errors = DefaultMaxErrors
    /\ context_lines \in {0, 1, DefaultContextLines}
    /\ encoding = NONE
    /\ Fresh
    /\ StoresEmpty

NextMain ==
    \/ MainStart
    \/ MainAnalyze
    \/ MainExcept
    \/ AnalyzeStep
    \/ AnalyzeReturn
    \/ MainFinish

SpecMain == InitMain /\ [][NextMain]_vars

\* C12 as stated: a report-mode run on an existing log that raises no
\* exception ends with exit code 0 and a report file written at report_path,
\* whether or not the scan found errors; exit code 1 only comes from a
\* missing log or an exception.
C12_ReportAlwaysWritten ==
    ret.op = "main" =>
        /\ (fileExists /\ ret.exc = NONE) =>
               (ret.value.exit_code = 0 /\ ret.value.report_written)
        /\ ret.value.exit_code = 1 => (~fileExists \/ ret.exc # NONE)

-----------------------------------------------------------------------------
(* SpecClassify: _identify_error_type() applied to single lines *)

MaxTokens == 3

ClassifyTokens == {"[ERROR]", "FAILURE", "Test", "FAILED", "Caused by:", " ", "boom"}

\* self._identify_error_type(line)
ClassifyCall ==
    /\ pc = "idle"
    /\ calls < MaxCalls
    /\ calls' = calls + 1
    /\ ret' = [op |-> "_identify_error_type", exc |-> NONE,
               value |-> [line |-> lines[1], tag |-> identify_error_type(lines[1])]]
    /\ UNCHANGED <<fileExists, envVars, cfgVars, grepVars, detected_encoding,
                   errors, pc, lines, i, hist>>

InitClassify ==
    /\ fileExists = TRUE
    /\ fileData = <<>>
    /\ readable = TRUE
    /\ chardet = NoChardet
    /\ max_errors = DefaultMaxErrors
    /\ context_lines = DefaultContextLines
    /\ encoding = NONE
    /\ detected_encoding = NONE
    /\ errors = <<>>
    /\ pc = "idle"
    /\ lines \in {<<l \o <<LF>>>> : l \in SeqsUpTo(ClassifyTokens, MaxTokens)}
    /\ i = 0
    /\ calls = 0
    /\ ret = NoRet
    /\ grep = NoGrep
    /\ printed = <<>>
    /\ hist = NoHist
    /\ StoresEmpty

NextClassify == ClassifyCall

SpecClassify == InitClassify /\ [][NextClassify]_vars

\* C13: the tag of a line is one of ERROR, FAILURE, EXCEPTION and the empty
\* tag, and depends on the line alone: ERROR when the line holds the [ERROR]
\* marker; otherwise FAILURE when it matches the failure pattern; otherwise
\* EXCEPTION when it starts with "Caused by:"; otherwise the empty tag.
C13_FixedPriority ==
    ret.op = "_identify_error_type" =>
        LET line == ret.value.line
            tag == ret.value.tag
        IN /\ tag \in {"ERROR", "FAILURE", "EXCEPTION", ""}
           /\ MavenError(line) => tag = "ERROR"
           /\ (~MavenError(line) /\ Failure(line)) => tag = "FAILURE"
           /\ (~MavenError(line) /\ ~Failure(line) /\ CausedBy(line))
                  => tag = "EXCEPTION"
           /\ (~MavenError(line) /\ ~Failure(line) /\ ~CausedBy(line))
                  => tag = ""

\* a line that starts with "Caused by:" and matches the failure pattern was
\* classified, twice
C13_Witness ==
    /\ ret.op = "_identify_error_type"
    /\ calls = 2
    /\ CausedBy(ret.value.line)
    /\ Failure(ret.value.line)
    /\ ~MavenError(ret.value.line)
    /\ ret.value.tag = "FAILURE"

-----------------------------------------------------------------------------
(* Claims about the match cap of grep_search() (SpecGrep) *)

\* C14 as stated: the match counter is <= max_matches in every state.
C14_CounterWithinCap == grep.matches_found <= grep.max_matches

\* C14 (amended): the match counter never exceeds max(max_matches, 0), so it
\* stays 0 when max_matches <= 0, and once it has reached max_matches no
\* further line is printed, as a match or as context.
C14_MatchesCapped ==
    /\ [](grep.matches_found <= Max(grep.max_matches, 0))
    /\ [][(pc = "grep" /\ grep.matches_found >= grep.max_matches) =>
              (printed' = printed /\ grep'.matches_found = grep.matches_found)]_vars

\* the search returned at the cap with a matching line still ahead
C14_Witness ==
    /\ ret.op = "grep_search"
    /\ grep.max_matches >= 1
    /\ grep.matches_found = grep.max_matches
    /\ \E k \in (i + 1)..Len(lines) : KeywordIn(grep.keyword, lines[k])

-----------------------------------------------------------------------------
(* Claims about the scan loop and the context window (Spec) *)

\* the last line of the window captured by entry e
WindowEnd(e) == e.line_number + Len(e.context_lines)

\* C15: an iteration of the scan loop moves the cursor by exactly 1 on an
\* unclassified line and by exactly 1 + len(context_lines) on a classified
\* one, and the windows [line_number, line_number + len(context_lines)] of
\* the entries of one scan are pairwise disjoint.
C15_WindowsDisjoint ==
    /\ [][(pc = "analyze" /\ pc' = "analyze") =>
              IF errors' = errors
              THEN i' = i + 1
              ELSE /\ Len(errors') = Len(errors) + 1
                   /\ i' = i + 1 + Len(errors'[Len(errors')].context_lines)]_vars
    /\ [](\A a \in 1..Len(ScanEntries) : \A b \in 1..Len(ScanEntries) :
             a < b => WindowEnd(ScanEntries[a]) < ScanEntries[b].line_number)

\* a scan produced two entries, the first with captured context
C15_Witness ==
    /\ ret.op = "analyze"
    /\ Len(ScanEntries) >= 2
    /\ ScanEntries[1].context_lines # <<>>

LiveTexts == {<<" ">>,
              <<"[ERROR]", " ", "boom">>,
              <<" ", "at", " ", "a.B.c">>}

InitLive ==
    /\ fileExists = TRUE
    /\ fileData \in FilesOf(LiveTexts, MaxLines, {<<LF>>}, {TRUE})
    /\ readable = TRUE
    /\ chardet = NoChardet
    /\ max_errors \in (-1)..MaxErrors
    /\ context_lines \in (-1)..MaxCtx
    /\ encoding = NONE
    /\ Fresh
    /\ StoresEmpty

\* the scan loop of a running analyze() call is scheduled until it returns
SpecLive ==
    InitLive /\ [][Next]_vars /\ WF_vars(AnalyzeStep) /\ WF_vars(AnalyzeReturn)

\* the while guard is false: the lines are exhausted or the cap is reached
ScanDone == i >= Len(lines) \/ Len(errors) >= max_errors

\* C16: every started scan returns; each iteration of the loop moves the
\* cursor strictly forward, and the loop is left exactly when the cursor has
\* exhausted the lines or the accumulator has reached max_errors (for
\* max_errors >= 0 it then holds exactly max_errors entries).
C16_ScanTerminates ==
    /\ (pc = "analyze") ~> (pc = "idle" /\ ret.op = "analyze")
    /\ [][(pc = "analyze" /\ pc' = "analyze") => (i' > i /\ ~ScanDone)]_vars
    /\ [][(pc = "analyze" /\ pc' = "idle") => ScanDone]_vars
    /\ [](Len(errors) >= max_errors /\ max_errors >= 0
             => Len(errors) = max_errors)

\* a scan ended by the cap before the last line
C16_Witness ==
    /\ ret.op = "analyze"
    /\ max_errors >= 1
    /\ Len(errors) = max_errors
    /\ i < Len(lines)

\* the k-th captured line of entry e meets a stop condition
Stops(e, k) ==
    \/ IsBlank(e.context_lines[k])
    \/ k > 1 /\ identify_error_type(e.context_lines[k]) # ""

\* the number of lines the window of entry e could hold
Available(e) == Min(Max(context_lines, 0), Len(lines) - e.line_number)

\* C17: the context of an entry is the run of lines after its trigger, in
\* order, up to and including the first line that is blank or that
\* classifies as an error and is not the line right after the trigger; no
\* line after that stopping line is collected, and an error line right after
\* the trigger does not stop the collection unless it is blank.
C17_StopsAtFirstStoppingLine ==
    \A x \in 1..Len(errors) :
        LET e == errors[x]
            n == Len(e.context_lines)
        IN /\ FollowsTrigger(e)
           /\ \A k \in 1..(n - 1) : ~Stops(e, k)
           /\ n < Available(e) => (n >= 1 /\ Stops(e, n))

\* an error line right after the trigger was collected and the collection
\* went on
C17_Witness ==
    \E x \in 1..Len(errors) :
        LET e == errors[x] IN
        /\ Len(e.context_lines) >= 2
        /\ identify_error_type(e.context_lines[1]) # ""

\* the offsets k >= 2 from the trigger of e at which the first stopping line
\* of its window is a line that classifies as a new error
EndingErrorLines(e) ==
    {k \in 2..Available(e) :
        /\ identify_error_type(RStrip(lines[e.line_number + k])) # ""
        /\ \A j \in 1..(k - 1) :
              LET line == RStrip(lines[e.line_number + j]) IN
              /\ ~IsBlank(line)
              /\ j >= 2 => identify_error_type(line) = ""}

\* C18 as stated: the later error line that ends an entry's context is not
\* in that entry's context_lines and, the cap not being reached, is the
\* trigger of an entry of its own once the scan has returned.
C18_NewErrorOwnEntry ==
    \A x \in 1..Len(errors) :
        LET e == errors[x] IN
        \A k \in EndingErrorLines(e) :
            /\ Len(e.context_lines) < k
            /\ (pc = "idle" /\ ret.op = "analyze" /\ Len(errors) < max_errors)
                  => \E y \in 1..Len(errors) :
                         errors[y].line_number = e.line_number + k

\* the positions of the captured lines of e that are frames or causes
TracePositions(e) ==
    {k \in 1..Len(e.context_lines) :
        StackFrame(e.context_lines[k]) \/ CausedBy(e.context_lines[k])}

\* C19: the stack_trace of an entry is the subsequence, in order, of exactly
\* those lines of its context_lines that have the stack-frame shape or start
\* with "Caused by:"; it is no longer than context_lines and is taken from
\* the captured lines only, never from the trigger line.
C19_StackTraceSubsequence ==
    \A x \in 1..Len(errors) :
        LET e == errors[x]
            pos == TracePositions(e)
        IN /\ Len(e.stack_trace) = Cardinality(pos)
           /\ Len(e.stack_trace) <= Len(e.context_lines)
           /\ \A j \in 1..Len(e.stack_trace) :
                 \E k \in pos : /\ Cardinality({m \in pos : m <= k}) = j
                                /\ e.stack_trace[j] = e.context_lines[k]
           /\ FollowsTrigger(e)

\* an entry triggered by a "Caused by:" line, whose context holds a line
\* that is no frame before a "Caused by:" line
C19_Witness ==
    \E x \in 1..Len(errors) :
        LET e == errors[x] IN
        /\ CausedBy(e.content)
        /\ Len(e.context_lines) = 2
        /\ TracePositions(e) = {2}
        /\ CausedBy(e.context_lines[2])
        /\ e.stack_trace = <<e.context_lines[2]>>

-----------------------------------------------------------------------------
(* SpecLegacy: analyze() of log_analyzer.py, which detects the encoding and  *)
(* reads the file itself                                                     *)

\* _detect_encoding of log_analyzer.py: the explicit encoding, or the
\* detection on the sample; nothing is looked up in self.detected_encoding
LegacyDetectEncoding(explicit, canRead, data, cd) ==
    DetectEncoding(NONE, explicit, canRead, data, cd)

\* open(log_path, 'r', encoding=..., errors='replace').readlines(), and the
\* second read as UTF-8 with errors='ignore' when that fails
LegacyReadLines(data, canRead, enc) ==
    IF canRead /\ enc \in KnownCodecs
    THEN [exc |-> NONE, fallback |-> FALSE,
          lines |-> TextModeLines(DecodeReplace(data, enc))]
    ELSE IF canRead
    THEN [exc |-> NONE, fallback |-> TRUE,
          lines |-> TextModeLines(DecodeIgnoreUtf8(data))]
    ELSE [exc |-> "OSError", fallback |-> TRUE, lines |-> <<>>]

\* analyze() of log_analyzer.py up to the scan loop
LegacyAnalyzeCall ==
    /\ pc = "idle"
    /\ calls < MaxCalls
    /\ calls' = calls + 1
    /\ IF ~fileExists
       THEN /\ ret' = [op |-> "analyze", exc |-> "FileNotFoundError",
                       value |-> <<>>]
            /\ UNCHANGED <<detected_encoding, pc, lines, i, hist>>
       ELSE LET enc == LegacyDetectEncoding(encoding, readable, fileData, chardet)
                r == LegacyReadLines(fileData, readable, enc)
            IN /\ detected_encoding' = enc
               /\ hist' = [hist EXCEPT
                              !.detects = @ + (IF encoding = NONE THEN 1 ELSE 0),
                              !.reads = @ + 1,
                              !.base = Len(errors),
                              !.fallbacks = @ + (IF r.fallback THEN 1 ELSE 0)]
               /\ IF r.exc = NONE
                  THEN /\ lines' = r.lines
                       /\ i' = 0
                       /\ pc' = "analyze"
                       /\ ret' = NoRet
                  ELSE /\ UNCHANGED <<lines, i, pc>>
                       /\ ret' = [op |-> "analyze", exc |-> r.exc, value |-> <<>>]
    /\ UNCHANGED <<fileExists, envVars, cfgVars, grepVars, errors>>

InitLegacy ==
    /\ fileExists = TRUE
    /\ fileData \in FilesOf(ReadTexts, MaxReadLines, {<<LF>>, <<CR, LF>>}, BOOLEAN)
    /\ readable \in BOOLEAN
    /\ chardet \in {NoChardet,
                    [available |-> TRUE, encoding |-> "GB2312", confidence |-> 99]}
    /\ max_errors = DefaultMaxErrors
    /\ context_lines = DefaultContextLines
    /\ encoding \in ExplicitEncodings
    /\ Fresh
    /\ StoresEmpty

NextLegacy ==
    \/ LegacyAnalyzeCall
    \/ AnalyzeStep
    \/ AnalyzeReturn
    \/ DeleteFile

SpecLegacy == InitLegacy /\ [][NextLegacy]_vars

\* C20 as stated: on one instance the detection on the byte sample runs at
\* most once, however many calls are made, and never with an explicit
\* encoding, which is then the encoding in use.
C20_DetectedOnce ==
    /\ hist.detects <= 1
    /\ encoding # NONE =>
          (hist.detects = 0 /\ detected_encoding \in {NONE, encoding})

-----------------------------------------------------------------------------
(* SpecBug: analyze() and generate_bug_report() over logs whose lines carry  *)
(* the phrases of the failure-type rules                                     *)

MaxBugLines == 3

BugTexts == {<<>>,
             <<"[ERROR]", " ", "boom">>,
             <<"[ERROR]", " ", "cannot find symbol">>,
             <<"[ERROR]", " ", "package">>,
             <<"[ERROR]", " ", "COMPILATION FAILURE">>,
             <<"[ERROR]", " ", "Exception">>,
             <<"cannot find symbol">>,
             <<"does not exist">>,
             <<"Exception">>}

InitBug ==
    /\ fileExists = TRUE
    /\ fileData \in FilesOf(BugTexts, MaxBugLines, {<<LF>>}, {TRUE})
    /\ readable = TRUE
    /\ chardet = NoChardet
    /\ max_errors = DefaultMaxErrors
    /\ context_lines = DefaultContextLines
    /\ encoding = NONE
    /\ Fresh
    /\ StoresEmpty

NextBug ==
    \/ AnalyzeCall
    \/ AnalyzeStep
    \/ AnalyzeReturn
    \/ GenerateBugReport

SpecBug == InitBug /\ [][NextBug]_vars

\* C21: the bug report is made from the first entry, and its Failure Type
\* is the label of the earliest rule that the entry's trigger and context
\* text satisfies: "cannot find symbol", then "package" with "does not
\* exist", then "compilation failure" in any case, then "Exception", else
\* Unknown.
C21_FirstMatchWins ==
    (ret.op = "generate_bug_report" /\ errors # <<>>) =>
        LET text == EntryText(errors[1])
            symbol == Contains(text, "cannot find symbol")
            package == Contains(text, "package") /\ Contains(text, "does not exist")
            compilation == ContainsCompilationFailureLower(text)
            exception == ContainsException(text)
            label == ret.value.failure_type
        IN /\ ret.value.kind = "bug_report"
           /\ symbol => label = "SymbolNotFound"
           /\ (~symbol /\ package) => label = "PackageNotFound"
           /\ (~symbol /\ ~package /\ compilation) => label = "CompilationError"
           /\ (~symbol /\ ~package /\ ~compilation /\ exception)
                 => label = "RuntimeException"
           /\ (~symbol /\ ~package /\ ~compilation /\ ~exception)
                 => label = "Unknown"

\* the first entry has "Exception" on its trigger line and "cannot find
\* symbol" only in its context
C21_Witness ==
    /\ ret.op = "generate_bug_report"
    /\ errors # <<>>
    /\ ContainsException(errors[1].content)
    /\ ~Contains(errors[1].content, "cannot find symbol")
    /\ Contains(EntryText(errors[1]), "cannot find symbol")
    /\ ret.value.failure_type = "SymbolNotFound"

-----------------------------------------------------------------------------
(* SpecFull: analyze() and generate_report() over short logs with stack     *)
(* frames, and over one log whose context is longer than the report shows   *)

MaxFullLines == 3

FullTexts == {<<>>,
              <<"[ERROR]", " ", "boom">>,
              <<"boom">>,
              <<" ", "at", " ", "a.B.c">>}

\* an error line followed by one line more than the report shows
LongLog ==
    FileOf(<<<<"[ERROR]", " ", "boom">>>>
           \o [k \in 1..(ReportContextLimit + 1) |-> <<"boom">>], <<LF>>, TRUE)

InitFull ==
    /\ fileExists = TRUE
    /\ fileData \in FilesOf(FullTexts, MaxFullLines, {<<LF>>}, {TRUE}) \cup {LongLog}
    /\ readable = TRUE
    /\ chardet = NoChardet
    /\ max_errors = DefaultMaxErrors
    /\ context_lines = DefaultContextLines
    /\ encoding = NONE
    /\ Fresh
    /\ StoresEmpty

NextFull ==
    \/ AnalyzeCall
    \/ AnalyzeStep
    \/ AnalyzeReturn
    \/ GenerateReport

SpecFull == InitFull /\ [][NextFull]_vars

\* C22 as stated: the full report has one section per entry, in entry order;
\* a section holds the trigger line, the first 10 context lines at most, and
\* a stack-trace block exactly when the entry's stack_trace is not empty.
C22_SectionPerEntry ==
    (ret.op = "generate_report" /\ errors # <<>>) =>
        /\ ret.value.kind = "report"
        /\ Len(ret.value.sections) = Len(errors)
        /\ \A k \in 1..Len(errors) :
              LET section == ret.value.sections[k] IN
              /\ section.line_number = errors[k].line_number
              /\ section.content = errors[k].content
              /\ section.context = FirstN(errors[k].context_lines, ReportContextLimit)
              /\ Len(section.context) <= ReportContextLimit
              /\ (\E b \in 1..Len(section.blocks) : section.blocks[b] = "stack_trace")
                    <=> errors[k].stack_trace # <<>>

\* C23 as stated, on its own example: every bug report whose Failure Type is
\* SymbolNotFound carries the missing-import/misspelling phrase as Root
\* Cause, whether the deciding phrase is on the trigger line or in a context
\* line.
C23_RootCausePerFailureType ==
    (/\ ret.op = "generate_bug_report"
     /\ errors # <<>>
     /\ ret.value.failure_type = "SymbolNotFound")
    => ret.value.root_cause = "missing import or misspelling"

-----------------------------------------------------------------------------
(* Claims about repeated analyze() calls (Spec) *)

\* C24 as stated: a second analyze() on the same instance over the unchanged
\* file returns the entry sequence the first call returned, no entry being
\* appended twice, and entries once appended are never changed.
C24_AnalyzeIdempotent ==
    /\ [](/\ calls = 2
          /\ ret.op = "analyze"
          /\ ret.exc = NONE
          => ret.value = SubSeq(errors, 1, hist.base))
    /\ [][/\ Len(errors') >= Len(errors)
          /\ \A k \in 1..Len(errors) : errors'[k] = errors[k]]_vars

-----------------------------------------------------------------------------
(* SpecGrepLive: grep_search() under fair scheduling of its loop *)

SpecGrepLive ==
    InitGrep /\ [][NextGrep]_vars /\ WF_vars(GrepStep) /\ WF_vars(GrepReturn)

\* grep_search() returned normally with fewer matches than the cap
GrepEndedBelowCap ==
    /\ pc = "idle"
    /\ ret.op = "grep_search"
    /\ ret.exc = NONE
    /\ context_lines >= 0
    /\ grep.matches_found < grep.max_matches

\* the number of times the 0-based line index j was printed
TimesPrinted(j) == Cardinality({a \in 1..Len(printed) : printed[a] = j})

\* j is a match line, or lies in the after-context of an earlier match
MatchOrAfterContext(j) ==
    \E a \in 1..Len(grep.match_lines) :
        /\ grep.match_lines[a] <= j
        /\ j <= grep.match_lines[a] + context_lines

\* C25: with context_lines >= 0 grep_search() terminates, its cursor strictly
\* increases on every iteration, and when it ends below the cap every line
\* containing the keyword was printed exactly once, as a match line or in the
\* after-context of an earlier match.
C25_GrepCoversKeywordLines ==
    /\ (pc = "grep" /\ context_lines >= 0) ~> (pc = "idle")
    /\ [][pc = "grep" /\ pc' = "grep" /\ context_lines >= 0 => i' > i]_vars
    /\ [](GrepEndedBelowCap =>
            \A k \in 1..Len(lines) :
                KeywordIn(grep.keyword, lines[k]) =>
                    /\ TimesPrinted(k - 1) = 1
                    /\ MatchOrAfterContext(k - 1))

\* the search ended below the cap and a keyword line was passed over inside
\* the after-context of an earlier match
C25_Witness ==
    /\ GrepEndedBelowCap
    /\ \E k \in 1..Len(lines) :
          /\ KeywordIn(grep.keyword, lines[k])
          /\ \A a \in 1..Len(grep.match_lines) : grep.match_lines[a] # k - 1

-----------------------------------------------------------------------------
(* novel-generate/scripts/state_manager.py: the stores *)

analyzerVars == <<fileExists, fileData, readable, chardet, cfgVars,
                  detected_encoding, errors, pc, lines, i, calls, ret,
                  grepVars, hist>>

\* no log analyzer is in use
NoAnalyzer ==
    /\ fileExists = FALSE
    /\ fileData = <<>>
    /\ readable = TRUE
    /\ chardet = NoChardet
    /\ max_errors = DefaultMaxErrors
    /\ context_lines = DefaultContextLines
    /\ encoding = NONE
    /\ Fresh

\* low_threshold = 20
LowThreshold == 20
\* redis_client.ltrim(key, 0, 19)
EmoTrimStop == 19

\* LRANGE/LTRIM of Redis: both ends inclusive, 0-based, a negative index
\* counts from the tail, an end past the tail is the tail
LRange(list, start, stop) ==
    LET n == Len(list)
        first == IF start < 0 THEN Max(n + start, 0) ELSE start
        last == Min(IF stop < 0 THEN n + stop ELSE stop, n - 1)
    IN IF first > last \/ first >= n
       THEN <<>>
       ELSE SubSeq(list, first + 1, last + 1)

\* LPUSH: the value is stored as its decimal string at the head
LPush(list, value) == <<ToString(value)>> \o list

\* int(x) of a stored string
ScoreRange == 0..100
ParseInt(s) == CHOOSE n \in ScoreRange : ToString(n) = s

\* the for loop of get_emo_curve: count scores until the first one that is
\* not below low_threshold
RECURSIVE ConsecutiveLow(_, _)
ConsecutiveLow(curve, k) ==
    IF k > Len(curve) \/ curve[k] >= LowThreshold
    THEN 0
    ELSE 1 + ConsecutiveLow(curve, k + 1)

Trend(curve) ==
    IF Len(curve) >= 2 /\ curve[1] > curve[Len(curve)] THEN "rising"
    ELSE IF Len(curve) >= 2 /\ curve[1] < curve[Len(curve)] THEN "falling"
    ELSE "neutral"

\* get_progress(): the row of the novel, or the default record
GetProgress ==
    IF novel_progress # <<>>
    THEN [current_volume |-> novel_progress[1].current_volume,
          current_chapter |-> novel_progress[1].current_chapter,
          last_chapter_status |-> novel_progress[1].last_chapter_status,
          world_initialized |-> novel_progress[1].world_initialized]
    ELSE [current_volume |-> 1, current_chapter |-> 0,
          last_chapter_status |-> "none", world_initialized |-> FALSE]

MaxUpdates == 4

\* the number of update_emo calls made since the initial state, which holds
\* no score or the scores of EmoTrimStop - 1 chapters
UpdatesMade == emo_updates - (IF emo_updates >= EmoTrimStop - 1
                              THEN EmoTrimStop - 1 ELSE 0)

\* update_emo(novel_id, score)
UpdateEmo(score) ==
    /\ UpdatesMade < MaxUpdates
    /\ emo_curve' = LRange(LPush(emo_curve, score), 0, EmoTrimStop)
    /\ emo_updates' = emo_updates + 1
    /\ reply' = [op |-> "update_emo", status |-> "SUCCESS", score |-> score]
    /\ UNCHANGED <<analyzerVars, novel_progress, project_status, chunker>>

\* get_emo_curve(novel_id, count)
GetEmoCurve(count) ==
    /\ LET raw == LRange(emo_curve, 0, count - 1)
           curve == [k \in 1..Len(raw) |-> ParseInt(raw[k])]
       IN reply' = [op |-> "get_emo_curve", status |-> "SUCCESS",
                    count |-> count, curve |-> curve, trend |-> Trend(curve),
                    consecutive_low |-> ConsecutiveLow(curve, 1)]
    /\ UNCHANGED <<analyzerVars, emo_curve, emo_updates, novel_progress,
                   project_status, chunker>>

\* verify_settlement(novel_id, chapter); has_summary and has_snapshot tell
\* whether chapter_summary and character_snapshot hold a row of the chapter
VerifySettlement(chapter, has_summary, has_snapshot) ==
    /\ LET emo_len == Len(emo_curve)
           all_passed == has_summary /\ has_snapshot
       IN reply' = [op |-> "verify_settlement",
                    status |-> IF all_passed THEN "SUCCESS" ELSE "INCOMPLETE",
                    chapter |-> chapter,
                    checks |-> [progress |-> IF GetProgress.current_chapter >= chapter
                                             THEN "OK" ELSE "WARN",
                                summary |-> IF has_summary THEN "OK" ELSE "MISSING",
                                snapshot |-> IF has_snapshot THEN "OK" ELSE "MISSING",
                                emo_curve |-> IF emo_len >= chapter
                                              THEN "OK" ELSE "WARN"],
                    all_passed |-> all_passed]
    /\ UNCHANGED <<analyzerVars, emo_curve, emo_updates, novel_progress,
                   project_status, chunker>>

-----------------------------------------------------------------------------
(* SpecEmo: the emotion curve of one novel *)

MaxCount == 3

EmoScores == {19, LowThreshold, 50}

\* the curve after n chapters that each recorded the default score 50
Recorded(n) == [k \in 1..n |-> ToString(50)]

InitEmo ==
    /\ NoAnalyzer
    /\ \E n \in {0, EmoTrimStop - 1} :
          /\ emo_curve = Recorded(n)
          /\ emo_updates = n
    /\ novel_progress = <<>>
    /\ project_status = <<>>
    /\ reply = NoReply
    /\ chunker = NoChunker

NextEmo ==
    \/ \E score \in EmoScores : UpdateEmo(score)
    \/ \E count \in 0..MaxCount : GetEmoCurve(count)
    \/ \E chapter \in {1, EmoTrimStop + 1, EmoTrimStop + 2},
          has_summary \in BOOLEAN, has_snapshot \in BOOLEAN :
          VerifySettlement(chapter, has_summary, has_snapshot)

SpecEmo == InitEmo /\ [][NextEmo]_vars

\* the first n elements of a sequence
Head_n(s, n) == SubSeq(s, 1, Min(Max(n, 0), Len(s)))

\* C26 as stated: the list holds at most 20 scores, update_emo puts the new
\* score in front of the ones kept, and get_emo_curve(count) returns the
\* min(count, length) scores at the head with consecutive_low the length of
\* the leading run of scores below 20.
C26_EmoCurveWindow ==
    /\ [](Len(emo_curve) <= EmoTrimStop + 1)
    /\ [][reply'.op = "update_emo" /\ emo_updates' # emo_updates =>
            /\ emo_curve'[1] = ToString(reply'.score)
            /\ Tail(emo_curve') = Head_n(emo_curve, Len(emo_curve') - 1)]_vars
    /\ [](reply.op = "get_emo_curve" =>
            /\ Len(reply.curve) = Min(reply.count, Len(emo_curve))
            /\ \A k \in 1..Len(reply.curve) :
                  ToString(reply.curve[k]) = emo_curve[k]
            /\ reply.consecutive_low \in 0..Len(reply.curve)
            /\ \A k \in 1..reply.consecutive_low : reply.curve[k] < LowThreshold
            /\ reply.consecutive_low < Len(reply.curve) =>
                  reply.curve[reply.consecutive_low + 1] >= LowThreshold)

\* C27 as stated: after at least `chapter` update_emo calls the emo_curve
\* check of verify_settlement(novel_id, chapter) is "OK", also above 20.
C27_EmoCheckOk ==
    /\ reply.op = "verify_settlement"
    /\ emo_updates >= reply.chapter
    => reply.checks.emo_curve = "OK"

-----------------------------------------------------------------------------
(* state_manager.py: project_status.json and the novel_progress row *)

\* what json.load cannot parse
Corrupt == [valid |-> FALSE]

IsReadable(file) == file # <<>> /\ file[1].valid

\* the statement a call ended with when an exception left it
Raised(op, exc) == [op |-> op, status |-> "RAISED", exc |-> exc]

\* variant: the synced content starts every field from its default
SyncedStatus_Defaults(file, progress, hooks) ==
    [valid |-> TRUE,
     config |-> [auto_mode |-> FALSE],
     cursor |-> [volume |-> progress.current_volume,
                 chapter |-> progress.current_chapter,
                 process_step |-> "NEED_WORLD"],
     context |-> [world_initialized |-> progress.world_initialized,
                  last_chapter_status |-> progress.last_chapter_status,
                  active_hooks_count |-> Cardinality(hooks)]]

\* the content sync_project_status() writes: cursor and context from
\* get_progress() and get_hooks(), config.auto_mode and cursor.process_step
\* from the file as it is when it exists and json.load reads it
SyncedStatus(file, progress, hooks) ==
    [valid |-> TRUE,
     config |-> [auto_mode |-> IF IsReadable(file)
                               THEN file[1].config.auto_mode ELSE FALSE],
     cursor |-> [volume |-> progress.current_volume,
                 chapter |-> progress.current_chapter,
                 process_step |-> IF IsReadable(file)
                                  THEN file[1].cursor.process_step
                                  ELSE "NEED_WORLD"],
     context |-> [world_initialized |-> progress.world_initialized,
                  last_chapter_status |-> progress.last_chapter_status,
                  active_hooks_count |-> Cardinality(hooks)]]

\* if not status_file.exists(): sync_project_status(novel_id)
EnsureStatus(file, progress, hooks) ==
    IF file = <<>> THEN <<SyncedStatus(file, progress, hooks)>> ELSE file

\* sync_project_status(novel_id); hooks is the Redis set novel:<id>:hooks
SyncProjectStatus(hooks) ==
    /\ project_status' = <<SyncedStatus(project_status, GetProgress, hooks)>>
    /\ reply' = [op |-> "sync_project_status", status |-> "SUCCESS",
                 hooks |-> hooks]
    /\ UNCHANGED <<analyzerVars, emo_curve, emo_updates, novel_progress, chunker>>

\* str.lower() on the values --enable is given
Lower(s) == IF s = "ON" THEN "on" ELSE IF s = "OFF" THEN "off" ELSE s

\* toggle_auto(enable, novel_id)
ToggleAuto(enable, hooks) ==
    LET file == EnsureStatus(project_status, GetProgress, hooks)
        current_mode == file[1].config.auto_mode
        new_mode == IF enable \notin {NONE, ""}
                    THEN Lower(enable) = "true" \/ Lower(enable) = "on"
                    ELSE ~current_mode
    IN /\ IF file[1].valid
          THEN /\ project_status' = <<[file[1] EXCEPT !.config.auto_mode = new_mode]>>
               /\ reply' = [op |-> "toggle_auto", status |-> "SUCCESS",
                            enable |-> enable, before |-> current_mode,
                            auto_mode |-> new_mode]
          ELSE /\ project_status' = file
               /\ reply' = Raised("toggle_auto", "JSONDecodeError")
       /\ UNCHANGED <<analyzerVars, emo_curve, emo_updates, novel_progress,
                      chunker>>

\* update_step(step, novel_id)
UpdateStep(step, hooks) ==
    LET file == EnsureStatus(project_status, GetProgress, hooks)
    IN /\ IF file[1].valid
          THEN /\ project_status' = <<[file[1] EXCEPT !.cursor.process_step = step]>>
               /\ reply' = [op |-> "update_step", status |-> "SUCCESS",
                            step |-> step]
          ELSE /\ project_status' = file
               /\ reply' = Raised("update_step", "JSONDecodeError")
       /\ UNCHANGED <<analyzerVars, emo_curve, emo_updates, novel_progress,
                      chunker>>

\* init_project(novel_id): get_progress, sync_project_status, update_step
InitProject(hooks) ==
    LET synced == SyncedStatus(project_status, GetProgress, hooks)
    IN /\ project_status' = <<[synced EXCEPT !.cursor.process_step = "NEED_WORLD"]>>
       /\ reply' = [op |-> "init_project", status |-> "SUCCESS", hooks |-> hooks]
       /\ UNCHANGED <<analyzerVars, emo_curve, emo_updates, novel_progress,
                      chunker>>

\* UPDATE novel_progress SET ... WHERE novel_id = %s: no row, nothing changes;
\* chapter is <<>> for None and <<n>> for the number n
UpdateRow(rows, chapter, status) ==
    [k \in 1..Len(rows) |->
        [rows[k] EXCEPT
            !.current_chapter = IF chapter # <<>> THEN chapter[1] ELSE @,
            !.last_chapter_status = IF status # NONE THEN status ELSE @]]

\* update_progress(novel_id, chapter, status) as main() calls it
UpdateProgress(chapter, status, hooks) ==
    /\ IF chapter = <<>> /\ status = NONE
       THEN /\ reply' = [op |-> "update_progress", status |-> "SUCCESS",
                         message |-> "No updates specified"]
            /\ UNCHANGED <<novel_progress, project_status>>
       ELSE /\ novel_progress' = UpdateRow(novel_progress, chapter, status)
            /\ project_status' =
                  <<SyncedStatus(project_status, GetProgress', hooks)>>
            /\ reply' = [op |-> "update_progress", status |-> "SUCCESS",
                         message |-> "Progress updated"]
    /\ UNCHANGED <<analyzerVars, emo_curve, emo_updates, chunker>>

\* init_character(): INSERT INTO novel_progress (novel_id, world_initialized)
\* VALUES (%s, TRUE) ON DUPLICATE KEY UPDATE world_initialized = TRUE; the
\* other columns of a new row take the values get_progress() falls back to
InitCharacter ==
    /\ novel_progress' =
          IF novel_progress = <<>>
          THEN <<[current_volume |-> 1, current_chapter |-> 0,
                  last_chapter_status |-> "none", world_initialized |-> TRUE]>>
          ELSE <<[novel_progress[1] EXCEPT !.world_initialized = TRUE]>>
    /\ reply' = [op |-> "init_character", status |-> "SUCCESS"]
    /\ UNCHANGED <<analyzerVars, emo_curve, emo_updates, project_status, chunker>>

MaxChapter == 2

\* next_chapter(novel_id); db_ok = FALSE: get_mysql() or the UPDATE raises,
\* which the bare except swallows
NextChapter(db_ok, hooks) ==
    LET file == EnsureStatus(project_status, GetProgress, hooks)
        new_chap == file[1].cursor.chapter + 1
    IN /\ IF file[1].valid
          THEN /\ new_chap <= MaxChapter
               /\ novel_progress' = IF db_ok
                                    THEN UpdateRow(novel_progress, <<new_chap>>, NONE)
                                    ELSE novel_progress
               /\ project_status' = <<[file[1] EXCEPT !.cursor.chapter = new_chap]>>
               /\ reply' = [op |-> "next_chapter", status |-> "SUCCESS",
                            chapter |-> new_chap]
          ELSE /\ project_status' = file
               /\ reply' = Raised("next_chapter", "JSONDecodeError")
               /\ UNCHANGED novel_progress
       /\ UNCHANGED <<analyzerVars, emo_curve, emo_updates, chunker>>

-----------------------------------------------------------------------------
(* SpecStatus: one novel's progress row and project_status.json *)

MaxHooks == 1

HookSets == {{}} \cup {{h} : h \in 1..MaxHooks}
Steps == {"NEED_WORLD", "WRITING"}
Enables == {NONE, "", "on", "OFF", "true"}

InitStatus ==
    /\ NoAnalyzer
    /\ emo_curve = <<>>
    /\ emo_updates = 0
    /\ novel_progress = <<>>
    /\ project_status \in {<<>>, <<Corrupt>>}
    /\ reply = NoReply
    /\ chunker = NoChunker

NextStatus ==
    \/ \E hooks \in HookSets : SyncProjectStatus(hooks)
    \/ \E enable \in Enables, hooks \in HookSets : ToggleAuto(enable, hooks)
    \/ \E step \in Steps, hooks \in HookSets : UpdateStep(step, hooks)
    \/ \E hooks \in HookSets : InitProject(hooks)
    \/ \E chapter \in {<<>>} \cup {<<c>> : c \in 0..MaxChapter},
          status \in {NONE, "done"},
          hooks \in HookSets : UpdateProgress(chapter, status, hooks)
    \/ InitCharacter
    \/ \E db_ok \in BOOLEAN, hooks \in HookSets : NextChapter(db_ok, hooks)

SpecStatus == InitStatus /\ [][NextStatus]_vars

\* C28 as stated: when next_chapter() returned SUCCESS with chapter n, the
\* cursor of project_status.json and current_chapter of the novel_progress
\* row both are n, and a following sync_project_status() leaves the cursor
\* at n, also when there is no row or the UPDATE failed.
C28_CursorAgreesWithProgress ==
    /\ [](reply.op = "next_chapter" /\ reply.status = "SUCCESS" =>
            /\ project_status[1].cursor.chapter = reply.chapter
            /\ novel_progress # <<>>
            /\ novel_progress[1].current_chapter = reply.chapter)
    /\ [][/\ reply.op = "next_chapter"
          /\ reply.status = "SUCCESS"
          /\ reply'.op = "sync_project_status"
          => project_status'[1].cursor.chapter = reply.chapter]_vars

\* C29: sync_project_status() on a readable project_status.json rewrites
\* cursor.volume, cursor.chapter and the context block from get_progress()
\* and the hooks and keeps cursor.process_step and config.auto_mode; on a
\* readable file process_step changes only in update_step/init_project and
\* auto_mode only in toggle_auto; two toggle_auto calls without argument in
\* a row restore the mode.
C29_SyncKeepsStepAndMode ==
    [][/\ reply'.op = "sync_project_status" =>
            /\ project_status'[1].cursor.volume = GetProgress.current_volume
            /\ project_status'[1].cursor.chapter = GetProgress.current_chapter
            /\ project_status'[1].context =
                  [world_initialized |-> GetProgress.world_initialized,
                   last_chapter_status |-> GetProgress.last_chapter_status,
                   active_hooks_count |-> Cardinality(reply'.hooks)]
       /\ IsReadable(project_status) =>
            /\ IsReadable(project_status')
            /\ project_status'[1].cursor.process_step
                  # project_status[1].cursor.process_step
               => reply'.op \in {"update_step", "init_project"}
            /\ project_status'[1].config.auto_mode
                  # project_status[1].config.auto_mode
               => reply'.op = "toggle_auto"
       /\ /\ reply.op = "toggle_auto"
          /\ reply.status = "SUCCESS"
          /\ reply.enable = NONE
          /\ reply'.op = "toggle_auto"
          /\ reply'.status = "SUCCESS"
          /\ reply'.enable = NONE
          => project_status'[1].config.auto_mode = reply.before]_vars

\* sync_project_status() ran on a file whose step and mode are not the
\* defaults, with a progress row that is past chapter 0
C29_Witness ==
    /\ reply.op = "sync_project_status"
    /\ IsReadable(project_status)
    /\ project_status[1].cursor.process_step = "WRITING"
    /\ project_status[1].config.auto_mode
    /\ project_status[1].cursor.chapter >= 1
    /\ project_status[1].context.active_hooks_count >= 1

-----------------------------------------------------------------------------
(* novel-generate/scripts/rag_engine.py: chunk_text *)

\* s[a:b] of Python: a negative index counts from the end, both are clamped
PyIndex(n, k) == IF k < 0 THEN Max(n + k, 0) ELSE Min(k, n)
PySlice(s, a, b) == SubSeq(s, PyIndex(Len(s), a) + 1, PyIndex(Len(s), b))

\* str.rfind(u): the 0-based index of the last occurrence, -1 without one
RFind(s, u) ==
    IF Contains(s, u)
    THEN (CHOOSE k \in 1..Len(s) :
              s[k] = u /\ \A j \in (k + 1)..Len(s) : s[j] # u) - 1
    ELSE -1

\* the characters U+3002 (ideographic full stop), U+FF01 (fullwidth
\* exclamation mark) and U+FF1F (fullwidth question mark)
FullStop == "u3002"
Exclamation == "uFF01"
Question == "uFF1F"

SentenceBreaks == {FullStop, LF, Exclamation, Question}

\* max of chunk.rfind(u) over the four sentence breaks
LastBreak(chunk) ==
    CHOOSE b \in {RFind(chunk, u) : u \in SentenceBreaks} :
        \A u \in SentenceBreaks : RFind(chunk, u) <= b

\* the chunk is cut after its last sentence break
CutShort(text, start, chunk_size) ==
    /\ start + chunk_size < Len(text)
    /\ LastBreak(PySlice(text, start, start + chunk_size)) > chunk_size \div 2

\* `end` when the chunk is appended
ChunkEnd(text, start, chunk_size) ==
    IF CutShort(text, start, chunk_size)
    THEN start + LastBreak(PySlice(text, start, start + chunk_size)) + 1
    ELSE start + chunk_size

MaxChunks == 7

\* chunk_text(text, chunk_size, overlap) is entered with its arguments
ChunkCall ==
    /\ chunker.pc = "called"
    /\ chunker' = IF Len(chunker.text) <= chunker.chunk_size
                  THEN [chunker EXCEPT !.pc = "idle", !.result = <<chunker.text>>]
                  ELSE [chunker EXCEPT !.pc = "chunk"]
    /\ UNCHANGED <<analyzerVars, novelVars>>

\* one iteration of the while loop of chunk_text()
ChunkStep ==
    /\ chunker.pc = "chunk"
    /\ chunker.start < Len(chunker.text)
    /\ Len(chunker.chunks) < MaxChunks
    /\ LET end == ChunkEnd(chunker.text, chunker.start, chunker.chunk_size)
           chunk == PySlice(chunker.text, chunker.start, end)
       IN chunker' = [chunker EXCEPT
                         !.chunks = Append(@, Strip(chunk)),
                         !.start = end - chunker.overlap]
    /\ UNCHANGED <<analyzerVars, novelVars>>

\* the loop is left: return [c for c in chunks if c]
ChunkReturn ==
    /\ chunker.pc = "chunk"
    /\ chunker.start >= Len(chunker.text)
    /\ chunker' = [chunker EXCEPT
                      !.pc = "idle",
                      !.result = SelectSeq(chunker.chunks, LAMBDA c : c # <<>>)]
    /\ UNCHANGED <<analyzerVars, novelVars>>

-----------------------------------------------------------------------------
(* SpecChunk: chunk_text() on texts of up to MaxText characters *)

MaxText == 6
MaxChunkSize == 5

ChunkUnits == {"a", FullStop}

InitChunk ==
    /\ NoAnalyzer
    /\ emo_curve = <<>>
    /\ emo_updates = 0
    /\ novel_progress = <<>>
    /\ project_status = <<>>
    /\ reply = NoReply
    /\ \E text \in SeqsUpTo(ChunkUnits, MaxText), chunk_size \in 1..MaxChunkSize :
          \E overlap \in 0..(chunk_size - 1) :
             chunker = [pc |-> "called", text |-> text,
                        chunk_size |-> chunk_size, overlap |-> overlap,
                        start |-> 0, chunks |-> <<>>, result |-> <<>>]

NextChunk == ChunkCall \/ ChunkStep \/ ChunkReturn

SpecChunk ==
    InitChunk /\ [][NextChunk]_vars /\ WF_vars(ChunkStep) /\ WF_vars(ChunkReturn)

\* C30 as stated: with chunk_size > 0 and 0 <= overlap < chunk_size the loop
\* of chunk_text() ends, its start offset growing on every iteration, also
\* when the chunk is cut short at a sentence break.
C30_ChunkTextTerminates ==
    /\ (chunker.pc = "chunk") ~> (chunker.pc = "idle")
    /\ [][chunker.pc = "chunk" /\ chunker'.pc = "chunk" =>
            chunker'.start > chunker.start]_vars

=============================================================================
